---- MODULE Spec2Model ----
(***************************************************************************)
(* Model of the chat analysis pipeline of stream-analyser                  *)
(* (streamanalyser/modules/chatanalyser.py, keyphrase_finder.py,           *)
(* structures.py).                                                         *)
(*                                                                         *)
(* Representation choices                                                  *)
(*  - A Python dict is a sequence of <<key, value>> pairs in insertion     *)
(*    order (dicts iterate in insertion order).                            *)
(*  - Python lists are sequences; Python index i is TLA+ index i + 1.      *)
(*  - Floats are exact rationals kept as scaled integers: a moving         *)
(*    average is stored multiplied by MAScale, a smoothed value computed   *)
(*    by smoothen_mov_avg is stored multiplied by MAScale * KernelWidth.   *)
(*    Comparisons and differences are then exact.                          *)
(*  - A text is a sequence of character codes, a token is a text, and a    *)
(*    message text is given as its sequence of word tokens.                *)
(***************************************************************************)
EXTENDS Integers, Sequences, FiniteSets, TLC

VARIABLES
    messages,             \* self.messages: list of Message (time, text)
    window,               \* self.window
    min_duration,         \* self.min_duration
    threshold_constant,   \* self.threshold_constant
    keyword_limit,        \* self.keyword_limit
    frequency,            \* self.frequency: dict second -> count
    fre_mov_avg,          \* self.fre_mov_avg: dict second -> mean (x MAScale)
    exp_mov_avg,          \* self.exp_mov_avg: list of smoothed values
    highlight_annotation, \* self.highlight_annotation: list of -1/0/1
    highlights,           \* self.highlights: list of Highlight
    pc,                   \* position in analyse()
    error,                \* exception raised by the last stage, or "none"
    intensity_list,       \* self.intensity_list: list of Intensity
    contexts,             \* self.contexts: raw records, then list of Context
    source_records,       \* records held by the files of self.source.paths
    autofix,              \* autofix argument of the latest context call
    paths,                \* self.source.paths
    call,                 \* latest ContextSourceManager call and its arguments
    other,                \* fields of a second ChatAnalyser
    process,              \* objects of the Python process every analyser reaches
    plan                  \* keyword method the host runs on each analyser

vars == <<messages, window, min_duration, threshold_constant, keyword_limit,
          frequency, fre_mov_avg, exp_mov_avg, highlight_annotation,
          highlights, pc, error, intensity_list, contexts, source_records,
          autofix, paths, call, other, process, plan>>

----------------------------------------------------------------------------
(* Bounds of the explored inputs *)

MaxMsgs == 3          \* messages in a stream (front of the pipeline)
MaxTime == 40         \* latest first message (front of the pipeline)
MaxGap == 2           \* largest gap between consecutive messages
MaxWindow == 3        \* largest moving-average window
MaxSeriesLen == 7     \* longest smoothed series drawn directly
MaxVal == 2           \* largest smoothed value drawn directly
MaxMinDuration == 2   \* largest min_duration drawn
MaxHighlights == 4    \* longest highlight list drawn directly
MaxDuration == 4      \* longest highlight drawn directly
MaxHlGap == 1         \* largest gap before a highlight drawn directly
MaxDelta == 2         \* largest frequency delta drawn directly
MaxThreshold == 3     \* largest threshold_constant drawn
MaxAttrHighlights == 2 \* longest highlight list given messages
MaxAttrMsgs == 3      \* messages in a stream given to attribution
MaxAttrTime == 8      \* latest first message given to attribution
MaxKeyMsgs == 3       \* messages of a highlight given to the keyphrase stage
MaxStopMsgs == 3       \* messages of the highlight given stop words
MaxIndex == 2          \* largest byIndex given to remove
MaxBlocks == 3         \* rises in a smoothed series made of rises
MaxPerSecond == 2      \* messages per second of a steady stream
MaxAnalyseMsgs == 2    \* messages in a stream given to a whole analysis
MaxAnalyseTime == 2    \* latest first message given to a whole analysis
MaxTwoSecs == 5        \* seconds the stream of each of two analysers covers
MaxBurst == 3          \* most messages in the busy second of such a stream
MaxUlps == 1           \* largest rounding error of a float sum, in units
MaxRecords == 3       \* records held by the context source files
MaxGuessRecords == 2  \* records held by the source files before guessing
MaxGuessHighlights == 1 \* highlights given to guess_context
MaxKeywords == 2      \* keywords of a highlight given to guess_context
MaxLevels == 3        \* longest levels, constants and colors lists given
MaxIntensityHighlights == 3 \* longest highlight list given intensities
MaxFdelta == 3        \* largest frequency delta given intensities

(* Program constants *)

KernelWidth == 40     \* _smoothen(dict, w=40)
RoundScale == 1024    \* rounding errors are counted in 1/1024 of the unit of an exact sum
DefaultThreshold == 3 \* threshold_constant=3
DefaultKeywordLimit == 4
DefaultMinDuration == 5

----------------------------------------------------------------------------
(* Generic helpers *)

Max(a, b) == IF a >= b THEN a ELSE b
Min(a, b) == IF a <= b THEN a ELSE b

RECURSIVE SeqSum(_)
SeqSum(s) == IF s = <<>> THEN 0 ELSE Head(s) + SeqSum(Tail(s))

RECURSIVE Gcd(_, _)
Gcd(a, b) == IF b = 0 THEN a ELSE Gcd(b, a % b)

RECURSIVE LcmUpTo(_)
LcmUpTo(n) == IF n <= 1 THEN 1 ELSE (LcmUpTo(n - 1) * n) \div Gcd(LcmUpTo(n - 1), n)

\* every mean sum(stack)/len(stack) with len(stack) <= MaxWindow is an
\* integer multiple of 1/MAScale
MAScale == LcmUpTo(MaxWindow)

\* dict helpers: a dict is a sequence of <<key, value>> pairs
DictKeys(d) == [i \in 1..Len(d) |-> d[i][1]]
DictValues(d) == [i \in 1..Len(d) |-> d[i][2]]
DictHas(d, k) == \E i \in 1..Len(d) : d[i][1] = k
DictGet(d, k) == d[CHOOSE i \in 1..Len(d) : d[i][1] = k][2]
DictSet(d, k, v) ==
    IF DictHas(d, k)
    THEN [i \in 1..Len(d) |-> IF d[i][1] = k THEN <<k, v>> ELSE d[i]]
    ELSE Append(d, <<k, v>>)

\* sorted(keys) for distinct integer keys: the i-th smallest key
SortedKeys(S) ==
    [i \in 1..Cardinality(S) |->
        CHOOSE x \in S : Cardinality({y \in S : y < x}) = i - 1]

(***************************************************************************)
(* Loops are written as a step on a record of the loop's locals (with the  *)
(* loop counter i) and a run of that step up to a given counter, so that   *)
(* the state after any number of iterations can be named.                  *)
(***************************************************************************)

----------------------------------------------------------------------------
(* ChatAnalyser.get_frequency *)

\* first loop: count messages per second, keys in first-seen order
CountStep(msgs, st) ==
    LET t == msgs[st.i + 1].time
    IN [i |-> st.i + 1,
        table |-> IF DictHas(st.table, t)
                  THEN DictSet(st.table, t, DictGet(st.table, t) + 1)
                  ELSE DictSet(st.table, t, 1)]

RECURSIVE CountRun(_, _)
CountRun(msgs, st) ==
    IF st.i >= Len(msgs) THEN st ELSE CountRun(msgs, CountStep(msgs, st))

CountMessages(msgs) == CountRun(msgs, [i |-> 0, table |-> <<>>]).table

\* a fill loop that leaves absent seconds absent
FillStepNoFill(st) ==
    [i |-> st.i + 1, table |-> st.table]

\* second loop: for sec in range(last): add 0 where the second is absent
FillStep(st) ==
    [i |-> st.i + 1,
     table |-> IF DictHas(st.table, st.i) THEN st.table
               ELSE DictSet(st.table, st.i, 0)]

RECURSIVE FillRun(_, _)
FillRun(st, last) ==
    IF st.i >= last THEN st ELSE FillRun(FillStep(st), last)

FillBlankSeconds(table, last) == FillRun([i |-> 0, table |-> table], last).table

\* third loop: rebuild the dict in ascending key order
SortTable(table) ==
    LET ks == SortedKeys({table[i][1] : i \in 1..Len(table)})
    IN [i \in 1..Len(ks) |-> <<ks[i], DictGet(table, ks[i])>>]

ComputeFrequency(msgs) ==
    SortTable(FillBlankSeconds(CountMessages(msgs), msgs[Len(msgs)].time))

----------------------------------------------------------------------------
(* ChatAnalyser.calculate_moving_average *)

\* an iteration that pops only once the FIFO holds more than W values
MovAvgStepLatePop(freq, W, st) ==
    LET popped == IF Len(st.stack) = W + 1 THEN Tail(st.stack) ELSE st.stack
        stack == Append(popped, freq[st.i + 1][2])
    IN [i |-> st.i + 1,
        stack |-> stack,
        out |-> DictSet(st.out, freq[st.i + 1][1],
                        (SeqSum(stack) * MAScale) \div Len(stack))]

\* one iteration over the item freq[i+1] = (time, value): the FIFO `stack`
\* and the output dict (means multiplied by MAScale)
MovAvgStep(freq, W, st) ==
    LET popped == IF Len(st.stack) = W THEN Tail(st.stack) ELSE st.stack
        stack == Append(popped, freq[st.i + 1][2])
    IN [i |-> st.i + 1,
        stack |-> stack,
        out |-> DictSet(st.out, freq[st.i + 1][1],
                        (SeqSum(stack) * MAScale) \div Len(stack))]

RECURSIVE MovAvgRun(_, _, _, _)
MovAvgRun(freq, W, st, n) ==
    IF st.i >= n THEN st ELSE MovAvgRun(freq, W, MovAvgStep(freq, W, st), n)

\* loop state after the first n items
MovAvgLoop(freq, W, n) ==
    MovAvgRun(freq, W, [i |-> 0, stack |-> <<>>, out |-> <<>>], n)

ComputeMovingAverage(freq, W) == MovAvgLoop(freq, W, Len(freq)).out

----------------------------------------------------------------------------
(* ChatAnalyser._smoothen: np.convolve(values, np.ones(w)/w, mode="same") *)

\* element k (0-based) of the full convolution of vals with w ones, as an
\* exact sum (the common factor 1/w is kept in the scale of the result)
FullConvolve(vals, w, k) ==
    SeqSum([j \in 1..Len(vals) |->
                IF (k - (j - 1) >= 0) /\ (k - (j - 1) <= w - 1)
                THEN vals[j] ELSE 0])

\* what decides the float sum of element k of the full convolution: the
\* non-zero values of vals it adds up, in order (adding a zero product
\* changes nothing), two of them in either order (one addition, and float
\* addition commutes)
WindowTerms(vals, w, k) ==
    LET added == SubSeq(vals, Max(1, k - w + 2), Min(Len(vals), k + 1))
        NonZero(x) == x # 0
        terms == SelectSeq(added, NonZero)
    IN IF Len(terms) = 2 /\ terms[1] > terms[2] THEN <<terms[2], terms[1]>> ELSE terms

\* mode="same": numpy swaps the operands so that the first is the longer,
\* returns max(M, w) values, centred on the shorter operand; the index in
\* the full convolution of the p-th value returned
SameIndex(vals, w, p) ==
    LET n == Min(Len(vals), w)
    IN (p - 1) + (n - (n \div 2) - 1)

\* Float sums that are equal as exact sums need not be equal when they add
\* up different terms: each addition rounds, and which way depends on the
\* terms and on the library that adds them.  The term sequences whose sum
\* stands next to an equal exact sum of other terms:
ContestedTerms(vals, w) ==
    LET n1 == Max(Len(vals), w)
        K(p) == SameIndex(vals, w, p)
    IN {WindowTerms(vals, w, K(p)) : p \in
           {p \in 1..n1 : \E q \in {p - 1, p + 1} \cap (1..n1) :
                /\ FullConvolve(vals, w, K(p)) = FullConvolve(vals, w, K(q))
                /\ WindowTerms(vals, w, K(p)) # WindowTerms(vals, w, K(q))}}

\* the rounding errors the float sums can have, in units below every
\* difference of exact sums: one error for each contested term sequence,
\* none where no other terms give the same sum
Roundings(vals, w) == [ContestedTerms(vals, w) -> (-MaxUlps)..MaxUlps]

\* np.convolve(values, np.ones(w) / w, mode="same") under the rounding r:
\* each value is its exact sum in units of 1/RoundScale plus its error
Smoothen(vals, w, r) ==
    [p \in 1..Max(Len(vals), w) |->
        LET k == SameIndex(vals, w, p)
            terms == WindowTerms(vals, w, k)
        IN FullConvolve(vals, w, k) * RoundScale
               + (IF terms \in DOMAIN r THEN r[terms] ELSE 0)]

----------------------------------------------------------------------------
(* ChatAnalyser.create_highlight_annotation *)

\* an iteration that takes an unchanged value for an increase
AnnotateStepLe(exp, st) ==
    [i |-> st.i + 1,
     acc |-> Append(st.acc, IF exp[st.i + 1] <= exp[st.i + 2] THEN 1
                            ELSE IF exp[st.i + 1] > exp[st.i + 2] THEN -1
                            ELSE 0)]

\* one iteration of `for i in range(len(exp_mov_avg))` below the break
AnnotateStep(exp, st) ==
    [i |-> st.i + 1,
     acc |-> Append(st.acc, IF exp[st.i + 1] < exp[st.i + 2] THEN 1
                            ELSE IF exp[st.i + 1] > exp[st.i + 2] THEN -1
                            ELSE 0)]

\* the loop ends when the range is exhausted or breaks at the last index
RECURSIVE AnnotateRun(_, _)
AnnotateRun(exp, st) ==
    IF st.i >= Len(exp) THEN st
    ELSE IF st.i = Len(exp) - 1 THEN st
    ELSE AnnotateRun(exp, AnnotateStep(exp, st))

ComputeAnnotation(exp) == AnnotateRun(exp, [i |-> 0, acc |-> <<>>]).acc

----------------------------------------------------------------------------
(* structures.Highlight *)

\* structures.Intensity; `constant` is held in tenths (0.7 is 7)
NewIntensity(level, constant, color) ==
    [level |-> level, constant |-> constant, color |-> color]

\* Highlight.intensity = None, as a record so that it compares with an
\* Intensity
NoIntensity == [level |-> "None", constant |-> 0, color |-> "None"]

NewHighlight(time, duration, fdelta) ==
    [time |-> time, duration |-> duration, fdelta |-> fdelta,
     intensity |-> NoIntensity, messages |-> <<>>, keywords |-> <<>>,
     kw_emotes |-> {}, contexts |-> {}]

----------------------------------------------------------------------------
(* ChatAnalyser.detect_highlight_times *)

\* an iteration that closes a run without the min_duration test
DetectStepNoMin(ann, exp, md, st) ==
    LET ct == st.i
        a == ann[ct + 1]
        opened == (st.start_time = 0) /\ (a = 1)
        start == IF opened THEN ct ELSE st.start_time
        init == IF opened THEN exp[ct + 1] ELSE st.initial_frequency
        duration == ct - start
        delta == exp[ct + 1] - init
    IN IF (start # 0) /\ (a # 1)
       THEN IF delta < 0
            THEN [i |-> ct + 1, hls |-> st.hls, start_time |-> 0,
                  initial_frequency |-> init]
            ELSE [i |-> ct + 1,
                  hls |-> Append(st.hls, NewHighlight(start, duration, delta)),
                  start_time |-> 0, initial_frequency |-> init]
       ELSE [i |-> ct + 1, hls |-> st.hls, start_time |-> start,
             initial_frequency |-> init]

\* one iteration of the loop body at current_time = st.i (0-based), from
\* the loop state st = [i, hls, start_time, initial_frequency]
DetectStep(ann, exp, md, st) ==
    LET ct == st.i
        a == ann[ct + 1]
        opened == (st.start_time = 0) /\ (a = 1)
        start == IF opened THEN ct ELSE st.start_time
        init == IF opened THEN exp[ct + 1] ELSE st.initial_frequency
        duration == ct - start
        delta == exp[ct + 1] - init
    IN IF (start # 0) /\ (a # 1)
       THEN IF duration < md
            THEN [i |-> ct + 1, hls |-> st.hls, start_time |-> 0,
                  initial_frequency |-> init]
            ELSE IF delta < 0
            THEN [i |-> ct + 1, hls |-> st.hls, start_time |-> 0,
                  initial_frequency |-> init]
            ELSE [i |-> ct + 1,
                  hls |-> Append(st.hls, NewHighlight(start, duration, delta)),
                  start_time |-> 0, initial_frequency |-> init]
       ELSE [i |-> ct + 1, hls |-> st.hls, start_time |-> start,
             initial_frequency |-> init]

RECURSIVE DetectRun(_, _, _, _, _)
DetectRun(ann, exp, md, st, n) ==
    IF st.i >= n THEN st ELSE DetectRun(ann, exp, md, DetectStep(ann, exp, md, st), n)

\* loop state after the first n iterations (current_time = 0 .. n-1)
DetectLoop(ann, exp, md, n) ==
    DetectRun(ann, exp, md,
              [i |-> 0, hls |-> <<>>, start_time |-> 0, initial_frequency |-> 0], n)

\* a detector that flushes a run still open at the end of the input
ComputeHighlightsFlush(ann, exp, md) ==
    LET st == DetectLoop(ann, exp, md, Len(ann))
    IN IF st.start_time # 0 /\ Len(ann) - st.start_time >= md
       THEN Append(st.hls, NewHighlight(st.start_time, Len(ann) - st.start_time,
                                        exp[Len(ann) + 1] - st.initial_frequency))
       ELSE st.hls

ComputeHighlights(ann, exp, md) == DetectLoop(ann, exp, md, Len(ann)).hls

----------------------------------------------------------------------------
(* ChatAnalyser.correct_highlights *)

\* list.remove(x): drop the first element equal to x
RemoveFirst(list, x) ==
    LET k == CHOOSE i \in 1..Len(list) : list[i] = x /\ \A j \in 1..(i - 1) : list[j] # x
    IN [i \in 1..(Len(list) - 1) |-> IF i < k THEN list[i] ELSE list[i + 1]]

\* highlight.duration <= avg_highlight_duration / threshold_constant, with
\* avg_highlight_duration = total / count and threshold_constant > 0
TooShort(h, total, count, tc) == h.duration * tc * count <= total

\* one iteration of `for i, highlight in enumerate(self.highlights)`; the
\* body removes from the list being iterated
CorrectStep(st, total, count, tc) ==
    [i |-> st.i + 1,
     list |-> IF TooShort(st.list[st.i + 1], total, count, tc)
              THEN RemoveFirst(st.list, st.list[st.i + 1])
              ELSE st.list]

\* the list iterator yields list[i] while i < len(list)
RECURSIVE CorrectRun(_, _, _, _)
CorrectRun(st, total, count, tc) ==
    IF st.i >= Len(st.list) THEN st
    ELSE CorrectRun(CorrectStep(st, total, count, tc), total, count, tc)

Durations(list) == [i \in 1..Len(list) |-> list[i].duration]

\* a first drop that spares the first highlight of every list
AfterFirstDropNever(list) == list

\* the list over which the average is taken: the first highlight is popped
\* whenever the list does not have exactly one element
AfterFirstDrop(list) == IF Len(list) # 1 THEN Tail(list) ELSE list

\* a correction that moves the first highlight to the end of the list
\* where it should drop it
ComputeCorrectedRotated(list, tc) ==
    IF list = <<>> THEN <<>>
    ELSE LET rest == AfterFirstDrop(list)
         IN CorrectRun([i |-> 0, list |-> rest],
                       SeqSum(Durations(rest)), Len(rest), tc).list
            \o (IF Len(list) # 1 THEN <<Head(list)>> ELSE <<>>)

ComputeCorrected(list, tc) ==
    IF list = <<>> THEN <<>>
    ELSE LET rest == AfterFirstDrop(list)
         IN CorrectRun([i |-> 0, list |-> rest],
                       SeqSum(Durations(rest)), Len(rest), tc).list

----------------------------------------------------------------------------
(* ChatAnalyser.init_intensity *)

DefaultLevels == <<"medium", "high", "very high", "ultra high">>

\* [0, 0.7, 1.4, 2.1] in tenths
DefaultConstants == <<0, 7, 14, 21>>

DefaultColors == <<"YELLOW", "BLUE", "RED", "MAGENTA">>

\* `x or default`: an empty list is replaced by the default
OrDefault(x, default) == IF x = <<>> THEN default ELSE x

\* constants == sorted(constants)
IsAscending(cs) == \A i \in 1..(Len(cs) - 1) : cs[i] <= cs[i + 1]

\* len(set(constants)) == len(constants)
AllUnique(cs) == \A i, j \in 1..Len(cs) : i # j => cs[i] # cs[j]

\* the chained comparison len(levels) != len(constants) != len(colors)
SizesDiffer(a, b, c) == (Len(a) # Len(b)) /\ (Len(b) # Len(c))

\* outcome of init_intensity: the exception raised ("none" on return) and
\* the value of self.intensity_list afterwards; the list comprehension
\* indexes all three lists over range(len(levels))
InitIntensityResult(levels0, constants0, colors0, current) ==
    LET levels == OrDefault(levels0, DefaultLevels)
        constants == OrDefault(constants0, DefaultConstants)
        colors == OrDefault(colors0, DefaultColors)
    IN IF SizesDiffer(levels, constants, colors)
       THEN [error |-> "DifferentListSizeError", list |-> current]
       ELSE IF ~IsAscending(constants)
       THEN [error |-> "ConstantsNotAscendingError", list |-> current]
       ELSE IF ~AllUnique(constants)
       THEN [error |-> "ConstantsNotUniqueError", list |-> current]
       ELSE IF Len(constants) < Len(levels) \/ Len(colors) < Len(levels)
       THEN [error |-> "IndexError", list |-> current]
       ELSE [error |-> "none",
             list |-> [i \in 1..Len(levels) |->
                          NewIntensity(levels[i], constants[i], colors[i])]]

----------------------------------------------------------------------------
(* Arguments of init_intensity *)

LevelNames == <<"low", "medium", "high", "very high", "ultra high">>

ColorNames == <<"BLUE", "YELLOW", "RED", "MAGENTA", "CYAN">>

\* constants in tenths
ConstantChoices == {0, 7, 10}

LevelLists == {SubSeq(LevelNames, 1, n) : n \in 0..MaxLevels}

ColorLists == {SubSeq(ColorNames, 1, n) : n \in 0..MaxLevels}

ConstantLists == UNION {[1..n -> ConstantChoices] : n \in 0..MaxLevels}

----------------------------------------------------------------------------
(* ChatAnalyser.set_highlight_intensities *)

\* a comparison that reads the duration where it should read the delta
QualifiesByDuration(h, total, count, c, below) == h.duration * 10 * count > total * c

\* the delta equals avg_value * intensity.constant as an exact product,
\* neither factor being zero (a product with a zero factor is exact)
ExactTie(h, total, count, c) ==
    c # 0 /\ total # 0 /\ h.fdelta * 10 * count = total * c

\* highlight.fdelta > avg_value * intensity.constant, with avg_value =
\* total / count and the constant in tenths; at an exact tie the float
\* comparison holds when the float product has come out below the delta
Qualifies(h, total, count, c, below) ==
    IF ExactTie(h, total, count, c) THEN below
    ELSE h.fdelta * 10 * count > total * c

\* an inner loop in which the first qualifying intensity is kept
LevelStepFirst(h, total, count, levels, down, st) ==
    [i |-> st.i + 1,
     intensity |-> IF st.intensity = NoIntensity
                      /\ Qualifies(h, total, count, levels[st.i + 1].constant,
                                   (st.i + 1) \in down)
                   THEN levels[st.i + 1] ELSE st.intensity]

\* the inner loop over self.intensity_list: every qualifying intensity
\* overwrites the previous one; down holds the indices of the intensities
\* whose product avg_value * constant is rounded below its exact value
LevelStep(h, total, count, levels, down, st) ==
    [i |-> st.i + 1,
     intensity |-> IF Qualifies(h, total, count, levels[st.i + 1].constant,
                                (st.i + 1) \in down)
                   THEN levels[st.i + 1] ELSE st.intensity]

RECURSIVE LevelRun(_, _, _, _, _, _)
LevelRun(h, total, count, levels, down, st) ==
    IF st.i >= Len(levels) THEN st
    ELSE LevelRun(h, total, count, levels, down,
                  LevelStep(h, total, count, levels, down, st))

AssignedIntensity(h, total, count, levels, down) ==
    LevelRun(h, total, count, levels, down,
             [i |-> 0, intensity |-> h.intensity]).intensity

\* one iteration of the outer loop; the debug message reads
\* highlight.intensity.level, which raises AttributeError on None
IntensityStep(total, count, levels, down, st) ==
    LET h == st.list[st.i + 1]
        it == AssignedIntensity(h, total, count, levels, down)
    IN [i |-> st.i + 1,
        list |-> [st.list EXCEPT ![st.i + 1].intensity = it],
        error |-> IF it = NoIntensity THEN "AttributeError" ELSE "none"]

RECURSIVE IntensityRun(_, _, _, _, _)
IntensityRun(total, count, levels, down, st) ==
    IF st.i >= Len(st.list) \/ st.error # "none" THEN st
    ELSE IntensityRun(total, count, levels, down,
                      IntensityStep(total, count, levels, down, st))

Deltas(list) == [i \in 1..Len(list) |-> list[i].fdelta]

ComputeIntensities(list, levels, down) ==
    IntensityRun(SeqSum(Deltas(list)), Len(list), levels, down,
                 [i |-> 0, list |-> list, error |-> "none"])

\* avg_value * constant is computed without rounding: the average of one
\* float or of two equal floats is that float (the sum of three equal
\* floats divided by three need not be), and the product by 1.0 is exact
UnroundedProduct(list, c) ==
    /\ c = 10
    /\ Len(list) <= 2
    /\ \A i, j \in 1..Len(list) : list[i].fdelta = list[j].fdelta

\* the intensities whose product avg_value * constant is rounded and equals
\* the delta of some highlight as an exact number
TiedLevels(list, levels) ==
    {l \in 1..Len(levels) :
        /\ ~UnroundedProduct(list, levels[l].constant)
        /\ \E i \in 1..Len(list) :
              ExactTie(list[i], SeqSum(Deltas(list)), Len(list), levels[l].constant)}

\* the ways the tied products can be rounded: any of them below
ProductRoundings(list, levels) == SUBSET TiedLevels(list, levels)

----------------------------------------------------------------------------
(* Texts.  A character is a string naming it (the fullwidth marks are      *)
(* "FF01" and "FF1F", the right single quote is "2019", the double quote   *)
(* is "QUOTE", the backslash is "BACKSLASH", the grave accent is           *)
(* "BACKTICK"); a text is a sequence of characters.                        *)

\* ''.join(parts)
RECURSIVE Concat(_)
Concat(parts) == IF parts = <<>> THEN <<>> ELSE Head(parts) \o Concat(Tail(parts))

\* ' '.join(parts)
RECURSIVE JoinSpace(_)
JoinSpace(parts) ==
    IF parts = <<>> THEN <<>>
    ELSE IF Len(parts) = 1 THEN Head(parts)
    ELSE Head(parts) \o <<" ">> \o JoinSpace(Tail(parts))

\* Python `a in b` on strings
IsSubstring(a, b) ==
    \E i \in 0..(Len(b) - Len(a)) : \A k \in 1..Len(a) : b[i + k] = a[k]

\* text occurs at 1-based position i of s
OccursAt(s, old, i) ==
    /\ i + Len(old) - 1 <= Len(s)
    /\ \A k \in 1..Len(old) : s[i + k - 1] = old[k]

\* positions from i on at which old occurs in s
OccurrencesFrom(s, old, i) == {j \in i..Len(s) : OccursAt(s, old, j)}

\* str.replace(old, new) from position i on: non-overlapping occurrences,
\* left to right (old is not empty); the text up to the next occurrence is
\* kept, the occurrence is replaced and the search goes on behind it
RECURSIVE ReplaceFrom(_, _, _, _)
ReplaceFrom(s, old, new, i) ==
    IF OccurrencesFrom(s, old, i) = {} THEN SubSeq(s, i, Len(s))
    ELSE LET j == CHOOSE x \in OccurrencesFrom(s, old, i) :
                      \A y \in OccurrencesFrom(s, old, i) : x <= y
         IN SubSeq(s, i, j - 1) \o new \o ReplaceFrom(s, old, new, j + Len(old))

Replace(s, old, new) == ReplaceFrom(s, old, new, 1)

\* str.lower() of one character
Lower(c) ==
    CASE c = "A" -> "a" []
        c = "B" -> "b" []
        c = "C" -> "c" []
        c = "D" -> "d" []
        c = "E" -> "e" []
        c = "F" -> "f" []
        c = "G" -> "g" []
        c = "H" -> "h" []
        c = "I" -> "i" []
        c = "J" -> "j" []
        c = "K" -> "k" []
        c = "L" -> "l" []
        c = "M" -> "m" []
        c = "N" -> "n" []
        c = "O" -> "o" []
        c = "P" -> "p" []
        c = "Q" -> "q" []
        c = "R" -> "r" []
        c = "S" -> "s" []
        c = "T" -> "t" []
        c = "U" -> "u" []
        c = "V" -> "v" []
        c = "W" -> "w" []
        c = "X" -> "x" []
        c = "Y" -> "y" []
        c = "Z" -> "z" []
         OTHER -> c

LowerText(t) == [i \in 1..Len(t) |-> Lower(t[i])]

\* string.punctuation plus the two fullwidth marks
PunctuationChars ==
    {"!", "QUOTE", "#", "$", "%", "&", "'", "(", ")", "*", "+", ",", "-", ".",
     "/", ":", ";", "<", "=", ">", "?", "@", "[", "BACKSLASH", "]", "^", "_", "BACKTICK",
     "{", "|", "}", "~", "FF01", "FF1F"}

\* `token in self.punctuation_list`: the token is one punctuation character
IsPunctuationToken(token) == Len(token) = 1 /\ token[1] \in PunctuationChars

\* all(ch in self.punctuation_list for ch in text)
AllPunctuation(text) == \A i \in 1..Len(text) : text[i] \in PunctuationChars

PHRASE_END_DELIMITER == <<"%", "p", "h", "r", "a", "s", "e", "_", "e", "n", "d", "%">>

\* fix_phrases passed by get_highlight_keyphrases
FixPhrases ==
    << <<<<"l", "e", "t", " ", "'", "s">>, <<"l", "e", "t", "'", "s">>>>,
       <<<<"c", "a", " ", "n", "'", "t">>, <<"c", "a", "n", "'", "t">>>>,
       <<<<"d", "o", " ", "n", "'", "t">>, <<"d", "o", "n", "'", "t">>>>,
       <<<<"h", "e", " ", "'", "s">>, <<"h", "e", "'", "s">>>>,
       <<<<"t", "h", "e", "y", " ", "'", "r", "e">>, <<"t", "h", "e", "y", "'", "r", "e">>>>,
       <<<<"i", "t", " ", "'", "s">>, <<"i", "t", "'", "s">>>>,
       <<<<"i", "t", " ", "2019", " ", "s">>, <<"i", "t", "2019", "s">>>>,
       <<<<"i", " ", "'", "m">>, <<"i", "'", "m">>>>,
       <<<<"y", "o", "u", " ", "'", "r", "e">>, <<"y", "o", "u", "'", "r", "e">>>> >>

----------------------------------------------------------------------------
(* nltk.word_tokenize, which KeyphraseFinder calls on every message part:   *)
(* the text is cut into sentences (nltk.sent_tokenize, further down) and    *)
(* each sentence goes through the substitutions of nltk's word tokenizer    *)
(* (NLTKWordTokenizer.tokenize), each applied to the whole sentence in      *)
(* nltk's order, then str.split().  Letters are A-Z and a-z.                *)

\* the characters str.strip() and str.split() take as whitespace
WhitespaceChars == {" ", "TAB", "NEWLINE"}

UpperLetters ==
    {"A", "B", "C", "D", "E", "F", "G", "H", "I", "J", "K", "L", "M", "N", "O",
     "P", "Q", "R", "S", "T", "U", "V", "W", "X", "Y", "Z"}

LowerLetters == {Lower(u) : u \in UpperLetters}

Digits == {"0", "1", "2", "3", "4", "5", "6", "7", "8", "9"}

\* \w of the regular expressions
WordChars == UpperLetters \cup LowerLetters \cup Digits \cup {"_"}

\* character i of the text, "END" outside it
CharAt(t, i) == IF i >= 1 /\ i <= Len(t) THEN t[i] ELSE "END"

\* the text has the characters w at position i
HasAt(t, i, w) == i + Len(w) - 1 <= Len(t) /\ SubSeq(t, i, i + Len(w) - 1) = w

\* the same ignoring case, as under (?i); w is in lower case
HasAtFold(t, i, w) == HasAt(LowerText(t), i, w)

\* length of the longest run of characters of S that starts at i
RunLen(t, i, S) ==
    CHOOSE n \in 0..(Len(t) - i + 1) :
        /\ \A k \in 0..(n - 1) : t[i + k] \in S
        /\ CharAt(t, i + n) \notin S

Padded(x) == <<" ">> \o x \o <<" ">>

NoMatch == [len |-> 0, out |-> <<>>]

Matched(n, out) == [len |-> n, out |-> out]

\* r" \g<0> " for one character of S
PadChar(t, i, S) == IF t[i] \in S THEN Matched(1, Padded(<<t[i]>>)) ELSE NoMatch

\* r" \g<0> " for the characters w
PadText(t, i, w) == IF HasAt(t, i, w) THEN Matched(Len(w), Padded(w)) ELSE NoMatch

\* r" \g<0> " for a run of at least least characters c
PadRun(t, i, c, least) ==
    IF t[i] = c /\ HasAt(t, i, [k \in 1..least |-> c])
    THEN PadText(t, i, [k \in 1..RunLen(t, i, {c}) |-> c])
    ELSE NoMatch

\* ([^\.])(\.)(closers*)\s*$ : the final full stop, with what closes after it
FinalPeriod(t, i, closers, gap) ==
    IF t[i] # "." /\ CharAt(t, i + 1) = "."
    THEN LET n == RunLen(t, i + 2, closers)
         IN IF \A k \in (i + 2 + n)..Len(t) : t[k] \in WhitespaceChars
            THEN Matched(Len(t) - i + 1,
                         <<t[i], " ", ".">> \o gap \o SubSeq(t, i + 2, i + 1 + n) \o <<" ">>)
            ELSE NoMatch
    ELSE NoMatch

\* ([ \(\[{<])(\"|\'{2}) -> r"\1 `` "
OpeningQuote(t, i) ==
    IF t[i] \in {" ", "(", "[", "{", "<"}
    THEN IF CharAt(t, i + 1) = "QUOTE"
         THEN Matched(2, <<t[i], " ", "BACKTICK", "BACKTICK", " ">>)
         ELSE IF HasAt(t, i + 1, <<"'", "'">>)
              THEN Matched(3, <<t[i], " ", "BACKTICK", "BACKTICK", " ">>)
              ELSE NoMatch
    ELSE NoMatch

\* (?i)(\')(?!re|ve|ll|m|t|s|d|n)(\w)\b -> r"\1 \2"
LeadingApostrophe(t, i) ==
    IF /\ t[i] = "'"
       /\ ~\E w \in {<<"r", "e">>, <<"v", "e">>, <<"l", "l">>, <<"m">>, <<"t">>,
                     <<"s">>, <<"d">>, <<"n">>} : HasAtFold(t, i + 1, w)
       /\ CharAt(t, i + 1) \in WordChars
       /\ CharAt(t, i + 2) \notin WordChars
    THEN Matched(2, <<"'", " ", t[i + 1]>>)
    ELSE NoMatch

\* ([:,])([^\d]) -> r" \1 \2"
ColonComma(t, i) ==
    IF t[i] \in {":", ","} /\ i < Len(t) /\ t[i + 1] \notin Digits
    THEN Matched(2, <<" ", t[i], " ", t[i + 1]>>)
    ELSE NoMatch

\* ([:,])$ -> r" \1 "
ColonCommaEnd(t, i) ==
    IF t[i] \in {":", ","} /\ (i = Len(t) \/ (i = Len(t) - 1 /\ t[Len(t)] = "NEWLINE"))
    THEN Matched(1, Padded(<<t[i]>>))
    ELSE NoMatch

\* ([^'])' -> r"\1 ' " (the apostrophe before a blank)
ApostropheBlank(t, i) ==
    IF t[i] # "'" /\ HasAt(t, i + 1, <<"'", " ">>)
    THEN Matched(3, <<t[i], " ", "'", " ">>)
    ELSE NoMatch

\* ([^' ])('[sS]|'[mM]|'[dD]|') -> r"\1 \2 " (before a blank)
ShortClitic(t, i) ==
    IF t[i] \notin {"'", " "} /\ CharAt(t, i + 1) = "'"
    THEN IF CharAt(t, i + 2) \in {"s", "S", "m", "M", "d", "D"} /\ CharAt(t, i + 3) = " "
         THEN Matched(4, <<t[i], " ", "'", t[i + 2], " ">>)
         ELSE IF CharAt(t, i + 2) = " "
              THEN Matched(3, <<t[i], " ", "'", " ">>)
              ELSE NoMatch
    ELSE NoMatch

LongClitics ==
    {<<"'", "l", "l">>, <<"'", "L", "L">>, <<"'", "r", "e">>, <<"'", "R", "E">>,
     <<"'", "v", "e">>, <<"'", "V", "E">>, <<"n", "'", "t">>, <<"N", "'", "T">>}

\* ([^' ])('ll|'LL|'re|'RE|'ve|'VE|n't|N'T) -> r"\1 \2 " (before a blank)
LongClitic(t, i) ==
    IF /\ t[i] \notin {"'", " "}
       /\ \E w \in LongClitics : HasAt(t, i + 1, w)
       /\ CharAt(t, i + 4) = " "
    THEN Matched(5, <<t[i], " ">> \o SubSeq(t, i + 1, i + 3) \o <<" ">>)
    ELSE NoMatch

\* CONTRACTIONS2 of nltk's MacIntyreContractions: the two halves of each
\* word and what its expression asks after them, \b or (?=\s)
Contractions2 ==
    << <<<<"c", "a", "n">>, <<"n", "o", "t">>, "\\b">>,
       <<<<"d">>, <<"'", "y", "e">>, "\\b">>,
       <<<<"g", "i", "m">>, <<"m", "e">>, "\\b">>,
       <<<<"g", "o", "n">>, <<"n", "a">>, "\\b">>,
       <<<<"g", "o", "t">>, <<"t", "a">>, "\\b">>,
       <<<<"l", "e", "m">>, <<"m", "e">>, "\\b">>,
       <<<<"m", "o", "r", "e">>, <<"'", "n">>, "\\b">>,
       <<<<"w", "a", "n">>, <<"n", "a">>, "(?=\\s)">> >>

\* CONTRACTIONS3: 'tis and 'twas after a blank
Contractions3 ==
    << <<<<"'", "t">>, <<"i", "s">>>>,
       <<<<"'", "t">>, <<"w", "a", "s">>>> >>

\* (?i)\b(first)(second)\b -> r" \1 \2 ", and for wanna
\* (?i)\b(first)(second)(?=\s), which asks for whitespace after the word
Contraction2(t, i, pair) ==
    LET n == Len(pair[1]) + Len(pair[2])
    IN IF /\ HasAtFold(t, i, pair[1] \o pair[2])
          /\ CharAt(t, i - 1) \notin WordChars
          /\ IF pair[3] = "\\b" THEN CharAt(t, i + n) \notin WordChars
                                ELSE CharAt(t, i + n) \in WhitespaceChars
       THEN Matched(n, <<" ">> \o SubSeq(t, i, i + Len(pair[1]) - 1) \o <<" ">>
                           \o SubSeq(t, i + Len(pair[1]), i + n - 1) \o <<" ">>)
       ELSE NoMatch

\* (?i) (first)(second)\b -> r" \1 \2 "
Contraction3(t, i, pair) ==
    LET n == Len(pair[1]) + Len(pair[2])
    IN IF /\ t[i] = " "
          /\ HasAtFold(t, i + 1, pair[1] \o pair[2])
          /\ CharAt(t, i + 1 + n) \notin WordChars
       THEN Matched(n + 1, <<" ">> \o SubSeq(t, i + 1, i + Len(pair[1])) \o <<" ">>
                               \o SubSeq(t, i + Len(pair[1]) + 1, i + n) \o <<" ">>)
       ELSE NoMatch

Rule(name) == [name |-> name, n |-> 0]

STARTING_QUOTES ==
    <<Rule("opening marks"), Rule("first quote"), Rule("backticks"),
      Rule("opening quote"), Rule("leading apostrophe")>>

PUNCTUATION ==
    <<Rule("final period"), Rule("colon comma"), Rule("colon comma end"),
      Rule("periods"), Rule("symbols"), Rule("last period"),
      Rule("question exclamation"), Rule("apostrophe blank"), Rule("asterisk")>>

PARENS_BRACKETS == <<Rule("brackets")>>

DOUBLE_DASHES == <<Rule("dashes")>>

\* text = " " + text + " ", between the substitutions, as a rule that takes
\* the whole text
PADDING == <<Rule("pad")>>

ENDING_QUOTES ==
    <<Rule("closing marks"), Rule("apostrophes"), Rule("quote"),
      Rule("short clitic"), Rule("long clitic")>>

CONTRACTIONS ==
    [k \in 1..Len(Contractions2) |-> [name |-> "contraction2", n |-> k]]
        \o [k \in 1..Len(Contractions3) |-> [name |-> "contraction3", n |-> k]]

\* the match of a rule that starts at character i: its length (0 when there
\* is none) and what replaces it
RuleMatch(rule, t, i) ==
    CASE rule.name = "pad" ->
             Matched(Len(t), Padded(t))
      [] rule.name = "opening marks" ->
             IF t[i] = "BACKTICK" THEN PadRun(t, i, "BACKTICK", 1)
             ELSE PadChar(t, i, {"00AB", "201C", "2018", "201E"})
      [] rule.name = "first quote" ->
             IF i = 1 /\ t[i] = "QUOTE" THEN Matched(1, <<"BACKTICK", "BACKTICK">>) ELSE NoMatch
      [] rule.name = "backticks" -> PadText(t, i, <<"BACKTICK", "BACKTICK">>)
      [] rule.name = "opening quote" -> OpeningQuote(t, i)
      [] rule.name = "leading apostrophe" -> LeadingApostrophe(t, i)
      [] rule.name = "final period" ->
             FinalPeriod(t, i, {"]", ")", "}", ">", "QUOTE", "'", "00BB", "201D", "2019", " "}, <<" ">>)
      [] rule.name = "colon comma" -> ColonComma(t, i)
      [] rule.name = "colon comma end" -> ColonCommaEnd(t, i)
      [] rule.name = "periods" -> PadRun(t, i, ".", 2)
      [] rule.name = "symbols" -> PadChar(t, i, {";", "@", "#", "$", "%", "&"})
      [] rule.name = "last period" ->
             FinalPeriod(t, i, {"]", ")", "}", ">", "QUOTE", "'"}, <<>>)
      [] rule.name = "question exclamation" -> PadChar(t, i, {"?", "!"})
      [] rule.name = "apostrophe blank" -> ApostropheBlank(t, i)
      [] rule.name = "asterisk" -> PadChar(t, i, {"*"})
      [] rule.name = "brackets" -> PadChar(t, i, {"]", "[", "(", ")", "{", "}", "<", ">"})
      [] rule.name = "dashes" -> PadText(t, i, <<"-", "-">>)
      [] rule.name = "closing marks" -> PadChar(t, i, {"00BB", "201D", "2019"})
      [] rule.name = "apostrophes" -> PadText(t, i, <<"'", "'">>)
      [] rule.name = "quote" ->
             IF t[i] = "QUOTE" THEN Matched(1, Padded(<<"'", "'">>)) ELSE NoMatch
      [] rule.name = "short clitic" -> ShortClitic(t, i)
      [] rule.name = "long clitic" -> LongClitic(t, i)
      [] rule.name = "contraction2" -> Contraction2(t, i, Contractions2[rule.n])
      [] rule.name = "contraction3" -> Contraction3(t, i, Contractions3[rule.n])

\* one step of regexp.sub(substitution, text): matches are taken from left
\* to right and do not overlap; st.i is the next character to look at
Advance(st, m, c) ==
    IF m.len > 0
    THEN [i |-> st.i + m.len, out |-> st.out \o m.out]
    ELSE [i |-> st.i + 1, out |-> st.out \o <<c>>]

SubStep(rule, t, st) == Advance(st, RuleMatch(rule, t, st.i), t[st.i])

RECURSIVE SubRun(_, _, _)
SubRun(rule, t, st) ==
    IF st.i > Len(t) THEN st ELSE SubRun(rule, t, SubStep(rule, t, st))

\* regexp.sub(substitution, text)
Substitute(rule, t) == SubRun(rule, t, [i |-> 1, out |-> <<>>]).out

\* for regexp, substitution in rules: text = regexp.sub(substitution, text)
RulesStep(rules, st) ==
    [i |-> st.i + 1, text |-> Substitute(rules[st.i + 1], st.text)]

RECURSIVE RulesRun(_, _)
RulesRun(rules, st) ==
    IF st.i >= Len(rules) THEN st ELSE RulesRun(rules, RulesStep(rules, st))

SubstituteAll(rules, text) == RulesRun(rules, [i |-> 0, text |-> text]).text

\* text.split(): the maximal runs of characters that are not whitespace
SplitWhitespace(text) ==
    LET starts == {i \in 1..Len(text) :
                      /\ text[i] \notin WhitespaceChars
                      /\ (i = 1 \/ text[i - 1] \in WhitespaceChars)}
        ends(i) == CHOOSE j \in i..Len(text) :
                      /\ \A k \in i..j : text[k] \notin WhitespaceChars
                      /\ (j = Len(text) \/ text[j + 1] \in WhitespaceChars)
        order == SortedKeys(starts)
    IN [n \in 1..Len(order) |-> SubSeq(text, order[n], ends(order[n]))]

\* NLTKWordTokenizer.tokenize
TreebankTokenize(text) ==
    SplitWhitespace(SubstituteAll(STARTING_QUOTES \o PUNCTUATION \o PARENS_BRACKETS
                                      \o DOUBLE_DASHES \o PADDING \o ENDING_QUOTES
                                      \o CONTRACTIONS, text))

----------------------------------------------------------------------------
(* nltk.sent_tokenize, which word_tokenize runs before the rules above:     *)
(* PunktSentenceTokenizer.tokenize with the language variables of           *)
(* PunktLanguageVars.  A sentence can end at ".", "?" or "!" when other     *)
(* punctuation or whitespace and a further word follows; the words around   *)
(* such a place are annotated in two passes and the text is cut where a     *)
(* word that ends a sentence is followed by another word.  The parameters   *)
(* the tokenizer was trained with are read from nltk's punkt data, which    *)
(* KeyphraseFinder downloads when it is constructed.                        *)

\* PunktLanguageVars.sent_end_chars
SentEndChars == {".", "?", "!"}

\* PunktLanguageVars._re_non_word_chars
NonWordChars ==
    {"?", "!", ")", "QUOTE", ";", "}", "]", "*", ":", "@", "'", "(", "{", "["}

\* the characters PunktLanguageVars._re_word_start excludes
NoWordStartChars ==
    {"(", "QUOTE", "BACKTICK", "{", "[", ":", ";", "&", "#", "*", "@", ")", "}",
     "]", "-", ","}

\* abbreviations, collocations and sentence starters of the punkt data, and
\* the contexts each word type was seen in ("BEG_UC", "MID_UC", "UNK_UC",
\* "BEG_LC", "MID_LC", "UNK_LC").  The data file is not in the repository:
\* a few abbreviations stand for its lists.  The lists are read only for a
\* word before a full stop that is an abbreviation, a single letter, a
\* number or an ellipsis; every other text is cut the same way whatever
\* they hold.
PunktAbbrevTypes == {<<"d", "r">>, <<"m", "r">>, <<"v", "s">>}

PunktCollocations == {}

PunktSentStarters == {}

PunktOrthoContext(typ) == {}

ORTHO_UC == {"BEG_UC", "MID_UC", "UNK_UC"}

ORTHO_LC == {"BEG_LC", "MID_LC", "UNK_LC"}

\* the position after the last character of the run of characters outside
\* S that starts at i
RunEnd(t, i, S) ==
    CHOOSE j \in i..(Len(t) + 1) :
        /\ \A k \in i..(j - 1) : t[k] \notin S
        /\ CharAt(t, j) \in S \cup {"END"}

\* (?:\.\s){2,}\. at i within a line: the number of characters it takes
SpacedPeriods(t, i) ==
    LET fits == {k \in 2..Len(t) :
                    /\ \A m \in 0..(k - 1) :
                          /\ CharAt(t, i + 2 * m) = "."
                          /\ CharAt(t, i + 2 * m + 1) \in {" ", "TAB"}
                    /\ CharAt(t, i + 2 * k) = "."}
    IN IF fits = {} THEN 0
       ELSE 2 * (CHOOSE k \in fits : \A m \in fits : m <= k) + 1

\* PunktLanguageVars._re_multi_char_punct at i: the number of characters it
\* takes, 0 when it does not match
MultiCharLen(t, i) ==
    IF HasAt(t, i, <<"-", "-">>) THEN RunLen(t, i, {"-"})
    ELSE IF HasAt(t, i, <<".", ".">>) THEN RunLen(t, i, {"."})
    ELSE SpacedPeriods(t, i)

\* \s | $ | NonWord | MultiChar at j
WordBreakAt(t, j) ==
    \/ CharAt(t, j) \in WhitespaceChars \cup NonWordChars \cup {"END"}
    \/ MultiCharLen(t, j) > 0

\* the lookahead that ends a word of _word_tokenize_fmt: a word break, or
\* a comma before one
WordEndAt(t, j) ==
    WordBreakAt(t, IF CharAt(t, j) = "," /\ ~WordBreakAt(t, j) THEN j + 1 ELSE j)

\* the number of characters PunktLanguageVars._re_word_tokenizer takes at
\* the character i, which is not whitespace: multi-character punctuation,
\* else a word that begins with a word start and is as short as its end
\* allows, else one character
PunktTokenLen(t, i) ==
    IF MultiCharLen(t, i) > 0 THEN MultiCharLen(t, i)
    ELSE IF t[i] \in NoWordStartChars THEN 1
    ELSE CHOOSE n \in 1..(Len(t) - i + 1) :
            /\ WordEndAt(t, i + n)
            /\ \A m \in 1..(n - 1) : ~WordEndAt(t, i + m)

\* one step of PunktLanguageVars.word_tokenize over the lines of a text;
\* st = [i, out], i the next character to look at
PunktWordsStep(t, st) ==
    IF t[st.i] \in WhitespaceChars THEN [i |-> st.i + 1, out |-> st.out]
    ELSE [i |-> st.i + PunktTokenLen(t, st.i),
          out |-> Append(st.out, SubSeq(t, st.i, st.i + PunktTokenLen(t, st.i) - 1))]

RECURSIVE PunktWordsRun(_, _)
PunktWordsRun(t, st) ==
    IF st.i > Len(t) THEN st ELSE PunktWordsRun(t, PunktWordsStep(t, st))

\* PunktBaseClass._tokenize_words: the words of each line of the text
PunktWords(t) == PunktWordsRun(t, [i |-> 1, out |-> <<>>]).out

\* PunktToken.period_final
PeriodFinal(tok) == tok[Len(tok)] = "."

\* PunktToken.is_ellipsis: _RE_ELLIPSIS = r"\.\.+$", matched from the start
IsEllipsis(tok) == Len(tok) >= 2 /\ \A k \in 1..Len(tok) : tok[k] = "."

\* PunktToken.is_initial: _RE_INITIAL = r"[^\W\d]\.$", matched from the start
IsInitial(tok) == Len(tok) = 2 /\ tok[1] \in WordChars \ Digits /\ tok[2] = "."

\* _RE_NUMERIC = r"^-?[\.,]?\d[\d,\.-]*\.?$"
IsNumeric(tok) ==
    LET a == IF CharAt(tok, 1) = "-" THEN 2 ELSE 1
        b == IF CharAt(tok, a) \in {".", ","} THEN a + 1 ELSE a
    IN /\ CharAt(tok, b) \in Digits
       /\ \A k \in (b + 1)..Len(tok) : tok[k] \in Digits \cup {",", ".", "-"}

NumberType == <<"#", "#", "n", "u", "m", "b", "e", "r", "#", "#">>

\* PunktToken._get_type
TokenType(tok) == IF IsNumeric(tok) THEN NumberType ELSE LowerText(tok)

\* PunktToken.type_no_period for the type typ
TypeNoPeriod(typ) ==
    IF Len(typ) > 1 /\ typ[Len(typ)] = "." THEN SubSeq(typ, 1, Len(typ) - 1) ELSE typ

\* tok[:-1].lower().split("-")[-1]
AfterLastDash(t) ==
    LET dashes == {k \in 1..Len(t) : t[k] = "-"}
    IN IF dashes = {} THEN t
       ELSE SubSeq(t, (CHOOSE k \in dashes : \A m \in dashes : m <= k) + 1, Len(t))

\* _annotate_first_pass: what the word is marked as
FirstPass(tok) ==
    IF Len(tok) = 1 /\ tok[1] \in SentEndChars THEN "sentbreak"
    ELSE IF IsEllipsis(tok) THEN "ellipsis"
    ELSE IF PeriodFinal(tok) /\ ~(Len(tok) >= 2 /\ tok[Len(tok) - 1] = ".")
    THEN IF {LowerText(SubSeq(tok, 1, Len(tok) - 1)),
             AfterLastDash(LowerText(SubSeq(tok, 1, Len(tok) - 1)))}
                \cap PunktAbbrevTypes # {}
         THEN "abbr" ELSE "sentbreak"
    ELSE "none"

\* PunktToken.type_no_sentperiod after the first pass
TypeNoSentPeriod(tok) ==
    IF FirstPass(tok) = "sentbreak" THEN TypeNoPeriod(TokenType(tok)) ELSE TokenType(tok)

\* _ortho_heuristic given the contexts oc of the word's type: whether the
\* word starts a sentence
OrthoHeuristic(tok, oc) ==
    IF Len(tok) = 1 /\ tok[1] \in {";", ":", ",", ".", "!", "?"} THEN "False"
    ELSE IF tok[1] \in UpperLetters /\ oc \cap ORTHO_LC # {} /\ "MID_UC" \notin oc
    THEN "True"
    ELSE IF tok[1] \in LowerLetters /\ (oc \cap ORTHO_UC # {} \/ "BEG_LC" \notin oc)
    THEN "False"
    ELSE "unknown"

\* _second_pass_annotation of a word that ends in a period, given what the
\* first pass marked it as, its type, the type of the next word and the
\* heuristic for the next word: whether the word ends a sentence
SecondPass(tok1, tok2, first, typ, next_typ, starter) ==
    IF <<typ, next_typ>> \in PunktCollocations THEN FALSE
    ELSE IF /\ first \in {"abbr", "ellipsis"}
            /\ ~IsInitial(tok1)
            /\ \/ starter = "True"
               \/ tok2[1] \in UpperLetters /\ next_typ \in PunktSentStarters
    THEN TRUE
    ELSE IF /\ IsInitial(tok1) \/ typ = NumberType
            /\ \/ starter = "False"
               \/ /\ starter = "unknown"
                  /\ IsInitial(tok1)
                  /\ tok2[1] \in UpperLetters
                  /\ PunktOrthoContext(next_typ) \cap ORTHO_LC = {}
    THEN FALSE
    ELSE first = "sentbreak"

\* the sentbreak mark of tok1 after both passes, tok2 the word after it
EndsSentence(tok1, tok2) ==
    IF ~PeriodFinal(tok1) THEN FirstPass(tok1) = "sentbreak"
    ELSE SecondPass(tok1, tok2, FirstPass(tok1), TypeNoPeriod(TokenType(tok1)),
                    TypeNoSentPeriod(tok2),
                    OrthoHeuristic(tok2, PunktOrthoContext(TypeNoSentPeriod(tok2))))

\* text_contains_sentbreak: a word that ends a sentence is followed by
\* another word
HasSentbreak(toks) == \E k \in 1..(Len(toks) - 1) : EndsSentence(toks[k], toks[k + 1])

\* the after_tok group of _period_context_fmt after the character p: other
\* punctuation ("mark"), whitespace and a word ("word"), or no match
AfterTok(t, p) ==
    IF CharAt(t, p + 1) \in NonWordChars THEN "mark"
    ELSE IF CharAt(t, p + 1) \in WhitespaceChars
            /\ p + 1 + RunLen(t, p + 1, WhitespaceChars) <= Len(t)
    THEN "word"
    ELSE "none"

\* where the next_tok group starts
NextTokStart(t, p) == p + 1 + RunLen(t, p + 1, WhitespaceChars)

\* the last character of after_tok
AfterTokEnd(t, p) ==
    IF AfterTok(t, p) = "mark" THEN p + 1
    ELSE RunEnd(t, NextTokStart(t, p), WhitespaceChars) - 1

\* where the context of a match at p starts: after the last whitespace
\* before p; _get_last_whitespace_index gives 0 for whitespace that begins
\* the text as it does for none, and the context then starts with the text
WordStartOf(t, p) ==
    LET blanks == {k \in 2..(p - 1) : t[k] \in WhitespaceChars}
    IN IF blanks = {} THEN 1
       ELSE (CHOOSE k \in blanks : \A m \in blanks : m <= k) + 1

\* the matches of _lang_vars.period_context_re(): sentence end characters
\* followed by an after_tok
PeriodMatches(t) == {p \in 1..Len(t) : t[p] \in SentEndChars /\ AfterTok(t, p) # "none"}

\* _match_potential_end_contexts: of the matches in one word the last is
\* kept, and one its context begins with; the context is the word up to
\* the match and the after_tok
PotentialEnds(t, matches) ==
    {p \in matches :
        \/ WordStartOf(t, p) = p
        \/ \A q \in matches : q > p => WordStartOf(t, q) > p}

\* the matches whose context holds a sentence break
SentenceBreaks(t) ==
    {p \in PotentialEnds(t, PeriodMatches(t)) :
        HasSentbreak(PunktWords(SubSeq(t, WordStartOf(t, p), AfterTokEnd(t, p))))}

\* len(text.rstrip())
RStripLen(t) ==
    CHOOSE n \in 0..Len(t) :
        /\ \A k \in (n + 1)..Len(t) : t[k] \in WhitespaceChars
        /\ n = 0 \/ t[n] \notin WhitespaceChars

\* _slices_from_text: the slices [start, stop] (first and last character)
\* between the sentence breaks, given in rising order
SlicesFromText(t, breaks) ==
    [n \in 1..(Len(breaks) + 1) |->
        [start |-> IF n = 1 THEN 1
                   ELSE IF AfterTok(t, breaks[n - 1]) = "word"
                   THEN NextTokStart(t, breaks[n - 1])
                   ELSE breaks[n - 1] + 1,
         stop |-> IF n <= Len(breaks) THEN breaks[n] ELSE RStripLen(t)]]

\* re_boundary_realignment = r'["\')\]}]+?(?:\s+|(?=--)|$)' matched at the
\* start of the sentence s: the closing marks it takes and the whitespace
\* after them, no marks when it does not match
RealignMatch(s) ==
    LET marks == RunLen(s, 1, {"QUOTE", "'", ")", "]", "}"})
    IN IF marks > 0 /\ CharAt(s, marks + 1) \in WhitespaceChars
       THEN [marks |-> marks, blanks |-> RunLen(s, marks + 1, WhitespaceChars)]
       ELSE IF marks > 0 /\ (marks = Len(s) \/ HasAt(s, marks + 1, <<"-", "-">>))
       THEN [marks |-> marks, blanks |-> 0]
       ELSE [marks |-> 0, blanks |-> 0]

\* one iteration of the loop of _realign_boundaries over the pairs of
\* slices; st = [i, realign, out], m the match at the start of the next
\* slice (no marks for the last slice)
RealignStep(slices, st, m) ==
    LET s1 == [start |-> slices[st.i + 1].start + st.realign,
               stop |-> slices[st.i + 1].stop]
    IN [i |-> st.i + 1,
        realign |-> m.marks + m.blanks,
        out |-> IF m.marks > 0
                THEN Append(st.out, [start |-> s1.start,
                                     stop |-> slices[st.i + 2].start + m.marks - 1])
                ELSE IF s1.start <= s1.stop THEN Append(st.out, s1)
                ELSE st.out]

RECURSIVE RealignRun(_, _, _)
RealignRun(t, slices, st) ==
    IF st.i >= Len(slices) THEN st
    ELSE RealignRun(t, slices,
             RealignStep(slices, st,
                 IF st.i + 2 > Len(slices) THEN [marks |-> 0, blanks |-> 0]
                 ELSE RealignMatch(SubSeq(t, slices[st.i + 2].start,
                                          slices[st.i + 2].stop))))

\* _realign_boundaries: closing punctuation at the start of a sentence
\* goes to the sentence before it
RealignBoundaries(t, slices) ==
    RealignRun(t, slices, [i |-> 0, realign |-> 0, out |-> <<>>]).out

\* PunktSentenceTokenizer.sentences_from_text
SentencesFromSlices(t, slices) ==
    [n \in 1..Len(slices) |-> SubSeq(t, slices[n].start, slices[n].stop)]

\* nltk.sent_tokenize(text)
SentTokenize(text) ==
    SentencesFromSlices(text,
        RealignBoundaries(text, SlicesFromText(text, SortedKeys(SentenceBreaks(text)))))

\* the tokens of each sentence, one list after the other
TokenizeSentences(sentences) ==
    Concat([n \in 1..Len(sentences) |-> TreebankTokenize(sentences[n])])

\* nltk.word_tokenize(text):
\* [token for sent in sent_tokenize(text) for token in tokenize(sent)]
WordTokenize(text) == TokenizeSentences(SentTokenize(text))

----------------------------------------------------------------------------
(* KeyphraseFinder: tokenizing *)

\* the colons that can close a match of ":.+:" opened by the colon at i: "."
\* takes every character but the newline, so they are the colons at least
\* two characters later on the same line
EmoteEnds(text, i) ==
    {j \in (i + 2)..Len(text) :
        text[j] = ":" /\ \A k \in (i + 1)..(j - 1) : text[k] # "NEWLINE"}

\* re.search(":.+:", text): the match starts at the leftmost colon that
\* can be closed and is extended greedily to the last colon that closes it
EmoteStarts(text) ==
    {i \in 1..Len(text) : text[i] = ":" /\ EmoteEnds(text, i) # {}}

HasEmote(text) == EmoteStarts(text) # {}

EmoteFirst(text) == CHOOSE i \in EmoteStarts(text) : \A k \in EmoteStarts(text) : i <= k

EmoteLast(text) ==
    LET ends == EmoteEnds(text, EmoteFirst(text))
    IN CHOOSE j \in ends : \A k \in ends : k <= j

\* KeyphraseFinder._regex_partition(string, ":.+:"): (first, match, last);
\* the string is lowercased only when nothing matches
RegexPartition(text) ==
    IF HasEmote(text)
    THEN <<SubSeq(text, 1, EmoteFirst(text) - 1),
           SubSeq(text, EmoteFirst(text), EmoteLast(text)),
           SubSeq(text, EmoteLast(text) + 1, Len(text))>>
    ELSE <<LowerText(text), <<>>, <<>>>>

\* KeyphraseFinder._tokenize_yt_chat_message
RECURSIVE TokenizeMessage(_)
TokenizeMessage(text) ==
    LET part == RegexPartition(text)
    IN WordTokenize(part[1]) \o
          (IF part[2] # <<>> THEN <<part[2]>> \o TokenizeMessage(part[3]) ELSE <<>>)

\* tokens[a:b] = [x] (0-based, b exclusive)
ReplaceSlice(tokens, a, b, x) ==
    SubSeq(tokens, 1, a) \o <<x>> \o SubSeq(tokens, b + 1, Len(tokens))

\* one iteration of the loop of _merge_punctuations over the list it
\* rewrites; st = [i, tokens, offset, done]
MergeStep(st) ==
    LET token == st.tokens[st.i + 1]
    IN IF st.i = Len(st.tokens) - 1 /\ st.offset # -1
       THEN [i |-> st.i + 1,
             tokens |-> ReplaceSlice(st.tokens, st.offset, st.i + 1,
                            Concat(SubSeq(st.tokens, st.offset + 1, st.i + 1))),
             offset |-> st.offset, done |-> TRUE]
       ELSE LET merge == st.offset # -1 /\ ~IsPunctuationToken(token)
                tokens1 == IF merge
                           THEN ReplaceSlice(st.tokens, st.offset, st.i,
                                    Concat(SubSeq(st.tokens, st.offset + 1, st.i)))
                           ELSE st.tokens
                offset1 == IF merge THEN -1 ELSE st.offset
            IN [i |-> st.i + 1, tokens |-> tokens1,
                offset |-> IF offset1 = -1 /\ IsPunctuationToken(token)
                           THEN st.i ELSE offset1,
                done |-> FALSE]

RECURSIVE MergeRun(_)
MergeRun(st) ==
    IF st.done \/ st.i >= Len(st.tokens) THEN st ELSE MergeRun(MergeStep(st))

\* KeyphraseFinder._merge_punctuations
MergePunctuations(tokens) ==
    MergeRun([i |-> 0, tokens |-> tokens, offset |-> -1, done |-> FALSE]).tokens

\* one iteration of the loop of _adjust_tokens: del self.tokens[i]
AdjustStep(st) ==
    LET token == st.tokens[st.i + 1]
    IN [i |-> st.i + 1,
        tokens |-> IF Len(token) = 1 /\ AllPunctuation(token)
                   THEN SubSeq(st.tokens, 1, st.i) \o
                            SubSeq(st.tokens, st.i + 2, Len(st.tokens))
                   ELSE st.tokens]

RECURSIVE AdjustRun(_)
AdjustRun(st) ==
    IF st.i >= Len(st.tokens) THEN st ELSE AdjustRun(AdjustStep(st))

\* KeyphraseFinder._adjust_tokens
AdjustTokens(tokens) ==
    IF Len(tokens) = 1 /\ AllPunctuation(tokens[1]) THEN tokens
    ELSE AdjustRun([i |-> 0, tokens |-> tokens]).tokens

\* one iteration of the loop of _tokenize_yt_chat: merge and adjust the
\* tokens gathered so far, then add the message's tokens and the delimiter
TokenizeChatStep(chat, st) ==
    [i |-> st.i + 1,
     tokens |-> AdjustTokens(MergePunctuations(st.tokens)) \o
                    TokenizeMessage(chat[st.i + 1].text) \o
                    <<PHRASE_END_DELIMITER>>]

RECURSIVE TokenizeChatRun(_, _)
TokenizeChatRun(chat, st) ==
    IF st.i >= Len(chat) THEN st ELSE TokenizeChatRun(chat, TokenizeChatStep(chat, st))

\* KeyphraseFinder._tokenize_yt_chat
TokenizeChat(chat) == TokenizeChatRun(chat, [i |-> 0, tokens |-> <<>>]).tokens

----------------------------------------------------------------------------
(* KeyphraseFinder: n-gram analysis *)

\* lines of data/monogram_stop_words.txt and of
\* data/monogram_stop_punctuations.txt, each without its last character
MonogramStopWordsFile == {<<"t", "h", "e">>}
MonogramStopPunctuationsFile == {<<"!">>, <<"?">>}

\* KeyphraseFinder.__init__ reads the stop-word file into
\* monogram_stop_punctuations and the punctuation file into
\* monogram_stop_words
monogram_stop_punctuations == MonogramStopWordsFile
monogram_stop_words == MonogramStopPunctuationsFile

\* self.stop_words stays None when no stop_words_path is given
stop_words == {}

\* nltk.ngrams(tokens, n): the contiguous n-grams in order
Grams(tokens, n) ==
    [i \in 1..Max(0, Len(tokens) - n + 1) |-> SubSeq(tokens, i, i + n - 1)]

\* nltk.FreqDist(grams).most_common(k): distinct grams with their counts,
\* by count descending, ties in order of first occurrence, at most k
MostCommon(grams, k) ==
    LET firsts == {i \in 1..Len(grams) : \A j \in 1..(i - 1) : grams[j] # grams[i]}
        \* count of each gram and rank of each distinct gram, tabulated once
        count == <<>> \o [i \in 1..Len(grams) |->
                    Cardinality({j \in 1..Len(grams) : grams[j] = grams[i]})]
        rank == <<>> \o [i \in 1..Len(grams) |->
                    IF i \in firsts
                    THEN Cardinality({j \in firsts :
                            \/ count[j] > count[i]
                            \/ (count[j] = count[i] /\ j < i)})
                    ELSE -1]
    IN [r \in 1..Min(k, Cardinality(firsts)) |->
            LET i == CHOOSE x \in firsts : rank[x] = r - 1
            IN <<grams[i], count[i]>>]

\* KeyphraseFinder._fix_token, from the n-th fix phrase on
RECURSIVE FixFrom(_, _)
FixFrom(token, n) ==
    IF n > Len(FixPhrases) THEN token
    ELSE FixFrom(Replace(token, FixPhrases[n][1], FixPhrases[n][2]), n + 1)

FixToken(token) == FixFrom(token, 1)

\* KeyphraseFinder._configure_keyphrase_amount: the adaptive maximum
ConfigureKeyphraseAmount(max_amount, min_amount, chat_len, stoppers) ==
    LET lowered == max_amount - Cardinality({i \in 1..Len(stoppers) : chat_len < stoppers[i]})
    IN IF lowered < min_amount THEN min_amount ELSE lowered

DefaultStoppers == <<100, 40, 10>>
DefaultMaxNgramSize == 7
DefaultMinNgramSize == 1
DefaultKeyphrasePerNgram == 20

\* first seen tuple (1-based index, 0 if none) whose phrase contains message
FirstContaining(seen, message) ==
    IF \E i \in 1..Len(seen) : IsSubstring(message, seen[i].phrase)
    THEN CHOOSE i \in 1..Len(seen) :
            /\ IsSubstring(message, seen[i].phrase)
            /\ \A j \in 1..(i - 1) : ~IsSubstring(message, seen[j].phrase)
    ELSE 0

RemoveAt(list, k) ==
    [i \in 1..(Len(list) - 1) |-> IF i < k THEN list[i] ELSE list[i + 1]]

\* body of the inner loop of ngram_keyphrase_analysis for the candidate
\* cand = <<gram, frequency>> of size n; P holds the call's parameters;
\* st = [k, seen, done], done when the function has returned
CandidateStep(cand, n, P, st) ==
    LET message == FixToken(JoinSpace(cand[1]))
        freq == cand[2]
        weighted_score == freq * n
        tuple == [phrase |-> message, frequency |-> freq,
                  size |-> n, score |-> weighted_score]
        hit == FirstContaining(st.seen, message)
        skipped ==
            \/ message = <<>>
            \/ freq <= 1
            \/ IsSubstring(PHRASE_END_DELIMITER, message)
            \/ (n = 1 /\ message \in monogram_stop_words)
            \/ (n > 1 /\ stop_words # {} /\
                    \E sw \in stop_words : IsSubstring(sw, message))
            \/ IF AllPunctuation(message)
               THEN \E i \in 1..Len(st.seen) : st.seen[i].phrase = message
               ELSE /\ hit # 0
                    /\ (~P.replace \/ ~(weighted_score > st.seen[hit].score))
        evicts == ~AllPunctuation(message) /\ hit # 0 /\ P.replace
                      /\ weighted_score > st.seen[hit].score
        seen1 == Append(IF evicts THEN RemoveAt(st.seen, hit) ELSE st.seen, tuple)
    IN IF skipped
       THEN [k |-> st.k + 1, seen |-> st.seen, done |-> FALSE]
       ELSE [k |-> st.k + 1, seen |-> seen1,
             done |-> (Len(seen1) = P.max_amount \/ n = P.min_ngram_size)]

RECURSIVE CandidateRun(_, _, _, _)
CandidateRun(cands, n, P, st) ==
    IF st.done \/ st.k >= Len(cands) THEN st
    ELSE CandidateRun(cands, n, P, CandidateStep(cands[st.k + 1], n, P, st))

\* outer loop: ngram_size from max_ngram_size down to min_ngram_size;
\* st = [size, seen, done]
RECURSIVE SizeRun(_, _, _)
SizeRun(tokens, P, st) ==
    IF st.done \/ st.size < P.min_ngram_size THEN st
    ELSE LET inner == CandidateRun(MostCommon(Grams(tokens, st.size), P.per_ngram),
                                   st.size, P,
                                   [k |-> 0, seen |-> st.seen, done |-> FALSE])
         IN SizeRun(tokens, P,
                    [size |-> st.size - 1, seen |-> inner.seen, done |-> inner.done])

\* sorted(seen_tuples, key=score, reverse=True): stable
SortByScore(seen) ==
    LET rank(i) == Cardinality({j \in 1..Len(seen) :
                        \/ seen[j].score > seen[i].score
                        \/ (seen[j].score = seen[i].score /\ j < i)})
    IN [r \in 1..Len(seen) |-> seen[CHOOSE i \in 1..Len(seen) : rank(i) = r - 1]]

\* KeyphraseFinder.ngram_keyphrase_analysis
NgramKeyphraseAnalysis(chat, max_ngram_size, max_amount, min_amount, replace, per_ngram, min_ngram_size, stoppers) ==
    LET tokens == TokenizeChat(chat)
        P == [max_amount |-> ConfigureKeyphraseAmount(max_amount, min_amount,
                                                      Len(chat), stoppers),
              min_ngram_size |-> min_ngram_size,
              replace |-> replace,
              per_ngram |-> per_ngram]
    IN SortByScore(SizeRun(tokens, P,
                           [size |-> max_ngram_size, seen |-> <<>>,
                            done |-> FALSE]).seen)

----------------------------------------------------------------------------
(* ChatAnalyser.get_highlight_messages *)

\* an iteration that also takes a message typed at the very start second
AttributeStepInclusive(msgs, st) ==
    LET t == msgs[st.i + 1].time
        h == st.list[st.hl_idx + 1]
        inside == h.time <= t /\ t < h.duration + h.time
        list1 == IF inside
                 THEN [st.list EXCEPT ![st.hl_idx + 1].messages =
                            Append(@, msgs[st.i + 1])]
                 ELSE st.list
        idx1 == IF t >= h.duration + h.time THEN st.hl_idx + 1 ELSE st.hl_idx
    IN [i |-> st.i + 1, hl_idx |-> idx1, list |-> list1,
        done |-> (idx1 = Len(st.list))]

\* one iteration over the message messages[i+1]; st = [i, hl_idx, list, done]
AttributeStep(msgs, st) ==
    LET t == msgs[st.i + 1].time
        h == st.list[st.hl_idx + 1]
        inside == h.time < t /\ t < h.duration + h.time
        list1 == IF inside
                 THEN [st.list EXCEPT ![st.hl_idx + 1].messages =
                            Append(@, msgs[st.i + 1])]
                 ELSE st.list
        idx1 == IF t >= h.duration + h.time THEN st.hl_idx + 1 ELSE st.hl_idx
    IN [i |-> st.i + 1, hl_idx |-> idx1, list |-> list1,
        done |-> (idx1 = Len(st.list))]

RECURSIVE AttributeRun(_, _)
AttributeRun(msgs, st) ==
    IF st.done \/ st.i >= Len(msgs) THEN st
    ELSE AttributeRun(msgs, AttributeStep(msgs, st))

ComputeHighlightMessages(msgs, list) ==
    IF list = <<>> THEN list
    ELSE AttributeRun(msgs, [i |-> 0, hl_idx |-> 0, list |-> list,
                             done |-> FALSE]).list

----------------------------------------------------------------------------
(* ChatAnalyser.get_highlight_keyphrases *)

\* the phrases returned by the finder for one highlight's messages
KeyphrasesOf(chat, limit) ==
    LET result == NgramKeyphraseAnalysis(chat, DefaultMaxNgramSize, limit, limit,
                                         FALSE, DefaultKeyphrasePerNgram,
                                         DefaultMinNgramSize, DefaultStoppers)
    IN [i \in 1..Len(result) |-> result[i].phrase]

\* ChatAnalyser.get_keyword_emotes: the set of the emotes of the
\* highlight's messages.  kw_emotes is list(...) of this set, the same
\* emotes in the order the hashes give, and is kept as the set
get_keyword_emotes(h) ==
    UNION {{h.messages[m].emotes[e] : e \in 1..Len(h.messages[m].emotes)} :
              m \in 1..Len(h.messages)}

\* one iteration of `for i, highlight in enumerate(self.highlights)`;
\* st = [i, list, done], done when the method has returned early
KeyphraseStep(limit, st) ==
    LET h == st.list[st.i + 1]
        keywords == KeyphrasesOf(h.messages, limit)
    IN IF h.messages = <<>>
       THEN [i |-> st.i + 1, list |-> st.list, done |-> TRUE]
       ELSE IF keywords # <<>>
       THEN [i |-> st.i + 1,
             list |-> [st.list EXCEPT ![st.i + 1].keywords = keywords,
                                      ![st.i + 1].kw_emotes = get_keyword_emotes(h)],
             done |-> FALSE]
       ELSE [i |-> st.i + 1, list |-> RemoveFirst(st.list, h), done |-> FALSE]

RECURSIVE KeyphraseRun(_, _)
KeyphraseRun(limit, st) ==
    IF st.done \/ st.i >= Len(st.list) THEN st
    ELSE KeyphraseRun(limit, KeyphraseStep(limit, st))

ComputeHighlightKeyphrases(list, limit) ==
    IF list = <<>> THEN list
    ELSE KeyphraseRun(limit, [i |-> 0, list |-> list, done |-> FALSE]).list

----------------------------------------------------------------------------
(* utils.normalize and ChatAnalyser.get_highlight_keywords *)

\* the punctuation string of utils.normalize
NormalizePunctuation == PunctuationChars \ {"FF01", "FF1F"}

StripText(text) ==
    LET kept == {i \in 1..Len(text) : text[i] \notin WhitespaceChars}
        first == CHOOSE i \in kept : \A j \in kept : i <= j
        last == CHOOSE i \in kept : \A j \in kept : j <= i
    IN IF kept = {} THEN <<>> ELSE SubSeq(text, first, last)

\* str.upper() on the characters Lower knows
Upper(c) ==
    IF \E u \in UpperLetters : Lower(u) = c
    THEN CHOOSE u \in UpperLetters : Lower(u) = c
    ELSE c

UpperText(t) == [i \in 1..Len(t) |-> Upper(t[i])]

\* utils.normalize
normalize(text) ==
    LET Kept(c) == c \notin NormalizePunctuation
    IN IF \A i \in 1..Len(text) : text[i] \in NormalizePunctuation
       THEN StripText(text)
       ELSE SelectSeq(StripText(LowerText(text)), Kept)

\* text.split(" ")
RECURSIVE SplitBlank(_)
SplitBlank(text) ==
    LET blanks == {i \in 1..Len(text) : text[i] = " "}
        j == CHOOSE i \in blanks : \A k \in blanks : i <= k
    IN IF blanks = {} THEN <<text>>
       ELSE <<SubSeq(text, 1, j - 1)>> \o SplitBlank(SubSeq(text, j + 1, Len(text)))

\* the orders in which a set can be iterated
Orderings(S) ==
    {s \in [1..Cardinality(S) -> S] :
        \A i, j \in 1..Cardinality(S) : i # j => s[i] # s[j]}

\* set(message.text.split(" "))
WordSet(text) == {SplitBlank(text)[i] : i \in 1..Len(SplitBlank(text))}

\* list(set(...)): the hashes of the running interpreter decide the order,
\* the same one for the same text; a choice of an order for each text
SetOrders(list) ==
    LET texts == UNION {{list[h].messages[m].text : m \in 1..Len(list[h].messages)} :
                           h \in 1..Len(list)}
        all == UNION {Orderings(WordSet(t)) : t \in texts}
    IN {order \in [texts -> all] : \A t \in texts : order[t] \in Orderings(WordSet(t))}

\* the inner loop: the normalized words of one message that are not empty
MessageWords(text, order) ==
    LET NotEmpty(word) == word # <<>>
    IN SelectSeq([i \in 1..Len(order[text]) |-> normalize(order[text][i])], NotEmpty)

\* `for message in highlight.messages`, from message i + 1 on
RECURSIVE HighlightWords(_, _, _)
HighlightWords(msgs, order, i) ==
    IF i >= Len(msgs) THEN <<>>
    ELSE MessageWords(msgs[i + 1].text, order) \o HighlightWords(msgs, order, i + 1)

\* keyword_filters=[] of the constructor: the list is made once, when the
\* function is defined, and every analyser constructed without the argument
\* holds this one list as self.keyword_filters
keyword_filters == <<>>

\* the two loops of words.remove(filter) and words.remove(filter.upper())
RemoveFilters(words, filters) ==
    LET Passes(word) ==
            \A f \in 1..Len(filters) : word # filters[f] /\ word # UpperText(filters[f])
    IN SelectSeq(words, Passes)

\* Counter(words).most_common(n): the n most frequent words, most frequent
\* first, words of one frequency in the order of their first occurrence
CounterMostCommon(words, n) ==
    LET firsts == {i \in 1..Len(words) : \A j \in 1..(i - 1) : words[j] # words[i]}
        Count(i) == Cardinality({j \in 1..Len(words) : words[j] = words[i]})
        Before(i) == {j \in firsts : Count(j) > Count(i) \/ (Count(j) = Count(i) /\ j < i)}
        size == IF n <= 0 THEN 0 ELSE Min(n, Cardinality(firsts))
    IN [k \in 1..size |->
           LET i == CHOOSE i \in firsts : Cardinality(Before(i)) = k - 1
           IN [word |-> words[i], count |-> Count(i)]]

\* highlight.keywords after the appends of one iteration
KeywordsOf(h, limit, order, filters) ==
    LET words == RemoveFilters(HighlightWords(h.messages, order, 0), filters)
        common == CounterMostCommon(words, limit)
        Appended(c) == c.word # <<>> /\ c.count > 1
        appended == SelectSeq(common, Appended)
    IN h.keywords \o [k \in 1..Len(appended) |-> appended[k].word]

\* one iteration of `for i, highlight in enumerate(self.highlights)`;
\* st = [i, list]; filters is self.keyword_filters
KeywordStep(limit, order, filters, st) ==
    LET h == st.list[st.i + 1]
        keywords == KeywordsOf(h, limit, order, filters)
    IN IF keywords # <<>>
       THEN [i |-> st.i + 1, list |-> [st.list EXCEPT ![st.i + 1].keywords = keywords]]
       ELSE [i |-> st.i + 1, list |-> RemoveFirst(st.list, h)]

RECURSIVE KeywordRun(_, _, _, _)
KeywordRun(limit, order, filters, st) ==
    IF st.i >= Len(st.list) THEN st
    ELSE KeywordRun(limit, order, filters, KeywordStep(limit, order, filters, st))

ComputeHighlightKeywords(list, limit, order, filters) ==
    IF list = <<>> THEN list
    ELSE KeywordRun(limit, order, filters, [i |-> 0, list |-> list]).list

\* a stage that adds the keywords it has found to self.keyword_filters
KeywordFiltersGrown(filters, list) ==
    filters \o Concat([h \in 1..Len(list) |-> list[h].keywords])

\* self.keyword_filters after get_highlight_keywords has left the highlight
\* list: the two loops over the filters read them and remove from words,
\* a list of the stage
KeywordFiltersAfter(filters, list) == filters

----------------------------------------------------------------------------
(* Context records.  A record read from a source file is a JSON object     *)
(* that may lack any of its keys: has_reaction_to and has_triggers tell    *)
(* whether the key is present, and a trigger likewise has has_phrase and   *)
(* has_is_exact.  A reaction_to is a string, a phrase is a text.           *)

RawTrigger(has_phrase, phrase, has_is_exact, is_exact) ==
    [has_phrase |-> has_phrase, phrase |-> phrase,
     has_is_exact |-> has_is_exact, is_exact |-> is_exact]

RawContext(has_reaction_to, reaction_to, has_triggers, triggers) ==
    [has_reaction_to |-> has_reaction_to, reaction_to |-> reaction_to,
     has_triggers |-> has_triggers, triggers |-> triggers]

\* structures.Trigger and structures.Context
NewTrigger(phrase, is_exact) == [phrase |-> phrase, is_exact |-> is_exact]

NewContext(reaction_to, triggers) == [reaction_to |-> reaction_to, triggers |-> triggers]

----------------------------------------------------------------------------
(* ChatAnalyser._check_contexts *)

\* next(i for i, nc in enumerate(new_contexts) if nc['reaction_to'] == r):
\* position in `new` of the first kept record with this reaction_to; `new`
\* holds positions of `orig`, whose records it shares
FirstWithReaction(orig, new, r) ==
    CHOOSE k \in 1..Len(new) :
        /\ orig[new[k]].reaction_to = r
        /\ \A j \in 1..(k - 1) : orig[new[j]].reaction_to # r

\* one iteration over self.contexts; st = [i, orig, seen, new, error]:
\* orig is self.contexts (its records are extended in place by a merge),
\* seen the reaction_to values met, new the positions kept
CheckStep(fix, st) ==
    LET c == st.orig[st.i + 1]
        next == [st EXCEPT !.i = st.i + 1]
    IN IF ~c.has_reaction_to
       THEN IF fix THEN next ELSE [next EXCEPT !.error = "KeyError"]
       ELSE IF c.reaction_to \notin st.seen
       THEN [next EXCEPT !.seen = st.seen \cup {c.reaction_to},
                         !.new = Append(st.new, st.i + 1)]
       ELSE IF ~fix
       THEN [next EXCEPT !.error = "DuplicateContextException"]
       ELSE LET k == st.new[FirstWithReaction(st.orig, st.new, c.reaction_to)]
            IN IF ~st.orig[k].has_triggers
               THEN [next EXCEPT !.error = "AttributeError"]
               ELSE IF ~c.has_triggers
               THEN [next EXCEPT !.error = "TypeError"]
               ELSE [next EXCEPT !.orig[k].triggers =
                                     st.orig[k].triggers \o c.triggers]

RECURSIVE CheckRun(_, _)
CheckRun(fix, st) ==
    IF st.i >= Len(st.orig) \/ st.error # "none" THEN st
    ELSE CheckRun(fix, CheckStep(fix, st))

\* a method that stores the records kept so far when it raises
CheckContextsResultPartial(ctxs, fix) ==
    LET st == CheckRun(fix, [i |-> 0, orig |-> ctxs, seen |-> {}, new |-> <<>>,
                             error |-> "none"])
    IN [error |-> st.error,
        contexts |-> [k \in 1..Len(st.new) |-> st.orig[st.new[k]]]]

\* the exception raised ("none" on return) and self.contexts afterwards:
\* new_contexts on return, the list given (with the records a merge has
\* extended) when an exception leaves the method
CheckContextsResult(ctxs, fix) ==
    LET st == CheckRun(fix, [i |-> 0, orig |-> ctxs, seen |-> {}, new |-> <<>>,
                             error |-> "none"])
    IN [error |-> st.error,
        contexts |-> IF st.error = "none"
                     THEN [k \in 1..Len(st.new) |-> st.orig[st.new[k]]]
                     ELSE st.orig]

----------------------------------------------------------------------------
(* ChatAnalyser.parse_contexts *)

\* Context(reaction_to=context['reaction_to'], triggers=[Trigger(...)])
\* raises when a key it reads is absent
Parsable(c) ==
    /\ c.has_reaction_to
    /\ c.has_triggers
    /\ \A t \in 1..Len(c.triggers) :
          c.triggers[t].has_phrase /\ c.triggers[t].has_is_exact

ParseContext(c) ==
    NewContext(c.reaction_to,
               [t \in 1..Len(c.triggers) |->
                   NewTrigger(c.triggers[t].phrase, c.triggers[t].is_exact)])

\* one iteration over self.contexts; st = [i, parsed, error]
ParseStep(ctxs, fix, st) ==
    LET c == ctxs[st.i + 1]
    IN IF Parsable(c)
       THEN [st EXCEPT !.i = st.i + 1, !.parsed = Append(st.parsed, ParseContext(c))]
       ELSE IF fix THEN [st EXCEPT !.i = st.i + 1]
       ELSE [st EXCEPT !.i = st.i + 1, !.error = "KeyError"]

RECURSIVE ParseRun(_, _, _)
ParseRun(ctxs, fix, st) ==
    IF st.i >= Len(ctxs) \/ st.error # "none" THEN st
    ELSE ParseRun(ctxs, fix, ParseStep(ctxs, fix, st))

\* the exception raised ("none" on return) and the list returned
ParseContextsResult(ctxs, fix) ==
    LET st == ParseRun(ctxs, fix, [i |-> 0, parsed |-> <<>>, error |-> "none"])
    IN IF st.error # "none" THEN [error |-> st.error, parsed |-> <<>>]
       ELSE IF fix /\ Len(st.parsed) = 0 /\ Len(ctxs) # 0
       THEN [error |-> "ContextsAllCorruptException", parsed |-> <<>>]
       ELSE [error |-> "none", parsed |-> st.parsed]

----------------------------------------------------------------------------
(* ChatAnalyser.get_contexts *)

\* read_contexts_from_sources, _check_contexts, parse_contexts in turn;
\* self.contexts is assigned the parsed list only when parse_contexts
\* returns
GetContextsResult(records, fix) ==
    LET checked == CheckContextsResult(records, fix)
        parsed == ParseContextsResult(checked.contexts, fix)
    IN IF checked.error # "none" THEN checked
       ELSE IF parsed.error # "none"
       THEN [error |-> parsed.error, contexts |-> checked.contexts]
       ELSE [error |-> "none", contexts |-> parsed.parsed]

----------------------------------------------------------------------------
(* ChatAnalyser.guess_context *)

\* keyword.startswith(':') and keyword.endswith(':')
IsKeywordEmote(keyword) ==
    Len(keyword) >= 1 /\ keyword[1] = ":" /\ keyword[Len(keyword)] = ":"

\* a normalisation that lowercases emote keywords too
NormalizedKeywordLower(keyword) == LowerText(keyword)

NormalizedKeyword(keyword) ==
    IF IsKeywordEmote(keyword) THEN keyword ELSE LowerText(keyword)

TriggerMatches(trigger, kw) ==
    \/ (trigger.is_exact /\ trigger.phrase = kw)
    \/ (~trigger.is_exact /\ IsSubstring(trigger.phrase, kw))

\* the reaction_to values the three nested loops add for one highlight
MatchedReactions(h, ctxs) ==
    {ctxs[c].reaction_to : c \in
        {c \in 1..Len(ctxs) :
            \E k \in 1..Len(h.keywords), t \in 1..Len(ctxs[c].triggers) :
                TriggerMatches(ctxs[c].triggers[t], NormalizedKeyword(h.keywords[k]))}}

\* one highlight: the set is added to, and replaced by {"None"} when it is
\* still empty
GuessOne(h, ctxs) ==
    LET found == h.contexts \cup MatchedReactions(h, ctxs)
    IN [h EXCEPT !.contexts = IF found = {} THEN {"None"} ELSE found]

ComputeGuessedContexts(list, ctxs) ==
    [i \in 1..Len(list) |-> GuessOne(list[i], ctxs)]

----------------------------------------------------------------------------
(* ContextSourceManager.  An optional argument is <<>> when it is None or  *)
(* not given and <<v>> when it has the value v.                            *)

Absent == <<>>

Given(v) == <<v>>

\* full_path in self.paths
Contains(ps, p) == \E i \in 1..Len(ps) : ps[i] = p

\* position of the first occurrence of p in ps
FirstIndex(ps, p) ==
    CHOOSE i \in 1..Len(ps) : ps[i] = p /\ \A j \in 1..(i - 1) : ps[j] # p

\* an add that appends without looking for the path in the list
AddResultNoCheck(ps, full_path) ==
    IF full_path = Absent \/ full_path = Given("")
    THEN [paths |-> ps, error |-> "ValueError"]
    ELSE [paths |-> Append(ps, full_path[1]), error |-> "none"]

\* ContextSourceManager.add(full_path)
AddResult(ps, full_path) ==
    IF full_path = Absent \/ full_path = Given("")
    THEN [paths |-> ps, error |-> "ValueError"]
    ELSE IF ~Contains(ps, full_path[1])
    THEN [paths |-> Append(ps, full_path[1]), error |-> "none"]
    ELSE [paths |-> ps, error |-> "PathAlreadyExistsException"]

\* ContextSourceManager.remove(byPath, byIndex): list.remove raises
\* ValueError for a value that is not in the list, del raises IndexError
\* for an index out of range, a negative index counts from the end
RemoveResult(ps, byPath, byIndex) ==
    IF byPath # Absent /\ byIndex # Absent
    THEN [paths |-> ps, error |-> "ValueError"]
    ELSE IF byPath # Absent
    THEN IF Contains(ps, byPath[1])
         THEN [paths |-> RemoveAt(ps, FirstIndex(ps, byPath[1])), error |-> "none"]
         ELSE [paths |-> ps, error |-> "ValueError"]
    ELSE IF byIndex # Absent
    THEN LET pos == IF byIndex[1] < 0 THEN Len(ps) + byIndex[1] + 1
                    ELSE byIndex[1] + 1
         IN IF pos \in 1..Len(ps)
            THEN [paths |-> RemoveAt(ps, pos), error |-> "none"]
            ELSE [paths |-> ps, error |-> "IndexError"]
    ELSE [paths |-> ps, error |-> "ValueError"]

\* ContextSourceManager.update(old_path, new_path): remove, then add
UpdateResult(ps, old_path, new_path) ==
    LET removed == RemoveResult(ps, old_path, Absent)
    IN IF removed.error # "none" THEN removed
       ELSE AddResult(removed.paths, new_path)

\* the path given as default_context_path
DefaultContextPath == "default"

\* NLTK_DATA_PATH of keyphrase_finder.py
NLTK_DATA_PATH == "data/nltk_data"

\* nltk.data.path before a KeyphraseFinder has been constructed
NltkDefaultPath == <<"nltk default">>

\* the objects of the Python process that every analyser reaches: the list
\* of the default argument keyword_filters=[], nltk.data.path, and the
\* context source files, each the list of records it holds
ProcessAtStart(files) ==
    [keyword_filters |-> keyword_filters, nltk_data_path |-> NltkDefaultPath,
     files |-> files]

\* the file at the default path holding the given records
DefaultFile(records) == [path \in {DefaultContextPath} |-> records]

\* KeyphraseFinder.__init__: nltk.data.path = [NLTK_DATA_PATH]; punkt is
\* downloaded to that directory first and word_tokenize reads it from there
FinderConstructed(p) == [p EXCEPT !.nltk_data_path = <<NLTK_DATA_PATH>>]

\* the process after get_highlight_keyphrases has run on the highlight list:
\* the stage returns before it constructs a finder when the list is empty
ProcessAfterKeyphrases(p, list) == IF list = <<>> THEN p ELSE FinderConstructed(p)

\* the process after get_highlight_keywords has run and left the list
ProcessAfterKeywords(p, list) ==
    [p EXCEPT !.keyword_filters = KeywordFiltersAfter(p.keyword_filters, list)]

\* no second analyser: the host has chosen no method
NoPlan == [first |-> "none", other |-> "none"]

----------------------------------------------------------------------------
(* Stages of ChatAnalyser.analyse, one action per method.  pc names the     *)
(* stage that analyse() calls next.                                        *)

\* ChatAnalyser(refined_messages, ..., window, ...): the constructor stores
\* its arguments, refuses a window that is not above one, then sets the
\* result fields and the source manager
Construct ==
    /\ pc = "construct"
    /\ IF ~(window > 1)
       THEN /\ error' = "ValueError"
            /\ pc' = "raised"
            /\ UNCHANGED <<frequency, intensity_list, fre_mov_avg, exp_mov_avg,
                           highlight_annotation, highlights, paths>>
       ELSE /\ frequency' = <<>>
            /\ intensity_list' = <<>>
            /\ fre_mov_avg' = <<>>
            /\ exp_mov_avg' = <<>>
            /\ highlight_annotation' = <<>>
            /\ highlights' = <<>>
            /\ paths' = AddResult(<<>>, Given(DefaultContextPath)).paths
            /\ pc' = "get_frequency"
            /\ UNCHANGED error
    /\ UNCHANGED <<messages, window, min_duration, threshold_constant,
                   keyword_limit, contexts, source_records, autofix, call, other,
                   process, plan>>

GetFrequency ==
    /\ pc = "get_frequency"
    /\ IF messages = <<>>
       THEN \* self.messages[-1] raises IndexError before self.frequency is set
            /\ error' = "IndexError"
            /\ pc' = "raised"
            /\ UNCHANGED frequency
       ELSE /\ frequency' = ComputeFrequency(messages)
            /\ pc' = "calculate_moving_average"
            /\ UNCHANGED error
    /\ UNCHANGED <<intensity_list, contexts, source_records, autofix>>
    /\ UNCHANGED <<paths, call, other, process, plan>>
    /\ UNCHANGED <<messages, window, min_duration, threshold_constant,
                   keyword_limit, fre_mov_avg, exp_mov_avg,
                   highlight_annotation, highlights>>

CalculateMovingAverage ==
    /\ pc = "calculate_moving_average"
    /\ fre_mov_avg' = ComputeMovingAverage(frequency, window)
    /\ pc' = "smoothen_mov_avg"
    /\ UNCHANGED <<intensity_list, contexts, source_records, autofix>>
    /\ UNCHANGED <<paths, call, other, process, plan>>
    /\ UNCHANGED <<messages, window, min_duration, threshold_constant,
                   keyword_limit, frequency, exp_mov_avg,
                   highlight_annotation, highlights, error>>

SmoothenMovAvg ==
    /\ pc = "smoothen_mov_avg"
    /\ IF fre_mov_avg = <<>>
       THEN \* np.convolve raises ValueError on an empty operand
            /\ error' = "ValueError"
            /\ pc' = "raised"
            /\ UNCHANGED exp_mov_avg
       ELSE /\ \E r \in Roundings(DictValues(fre_mov_avg), KernelWidth) :
                  exp_mov_avg' = Smoothen(DictValues(fre_mov_avg), KernelWidth, r)
            /\ pc' = "create_highlight_annotation"
            /\ UNCHANGED error
    /\ UNCHANGED <<intensity_list, contexts, source_records, autofix>>
    /\ UNCHANGED <<paths, call, other, process, plan>>
    /\ UNCHANGED <<messages, window, min_duration, threshold_constant,
                   keyword_limit, frequency, fre_mov_avg,
                   highlight_annotation, highlights>>

CreateHighlightAnnotation ==
    /\ pc = "create_highlight_annotation"
    /\ highlight_annotation' = ComputeAnnotation(exp_mov_avg)
    /\ pc' = "detect_highlight_times"
    /\ UNCHANGED <<intensity_list, contexts, source_records, autofix>>
    /\ UNCHANGED <<paths, call, other, process, plan>>
    /\ UNCHANGED <<messages, window, min_duration, threshold_constant,
                   keyword_limit, frequency, fre_mov_avg, exp_mov_avg,
                   highlights, error>>

DetectHighlightTimes ==
    /\ pc = "detect_highlight_times"
    /\ highlights' = ComputeHighlights(highlight_annotation, exp_mov_avg, min_duration)
    /\ pc' = "correct_highlights"
    /\ UNCHANGED <<intensity_list, contexts, source_records, autofix>>
    /\ UNCHANGED <<paths, call, other, process, plan>>
    /\ UNCHANGED <<messages, window, min_duration, threshold_constant,
                   keyword_limit, frequency, fre_mov_avg, exp_mov_avg,
                   highlight_annotation, error>>

CorrectHighlights ==
    /\ pc = "correct_highlights"
    /\ highlights' = ComputeCorrected(highlights, threshold_constant)
    /\ pc' = "init_intensity"
    /\ UNCHANGED <<intensity_list, contexts, source_records, autofix>>
    /\ UNCHANGED <<paths, call, other, process, plan>>
    /\ UNCHANGED <<messages, window, min_duration, threshold_constant,
                   keyword_limit, frequency, fre_mov_avg, exp_mov_avg,
                   highlight_annotation, error>>

\* correct_highlights called once more on the list it has just produced
CorrectHighlightsAgain ==
    /\ pc = "init_intensity"
    /\ highlights' = ComputeCorrected(highlights, threshold_constant)
    /\ pc' = "corrected_again"
    /\ UNCHANGED <<intensity_list, contexts, source_records, autofix>>
    /\ UNCHANGED <<paths, call, other, process, plan>>
    /\ UNCHANGED <<messages, window, min_duration, threshold_constant,
                   keyword_limit, frequency, fre_mov_avg, exp_mov_avg,
                   highlight_annotation, error>>

\* init_intensity(levels, constants, colors)
InitIntensity ==
    /\ pc = "init_intensity"
    /\ \E levels \in LevelLists, constants \in ConstantLists, colors \in ColorLists :
          LET r == InitIntensityResult(levels, constants, colors, intensity_list)
          IN /\ intensity_list' = r.list
             /\ error' = r.error
             /\ pc' = IF r.error = "none" THEN "set_highlight_intensities"
                      ELSE "raised"
    /\ UNCHANGED <<contexts, source_records, autofix>>
    /\ UNCHANGED <<paths, call, other, process, plan>>
    /\ UNCHANGED <<messages, window, min_duration, threshold_constant,
                   keyword_limit, frequency, fre_mov_avg, exp_mov_avg,
                   highlight_annotation, highlights>>

\* init_intensity(None, None, None), as analyse() calls it when it is given
\* no lists: every list is replaced by its default
InitIntensityDefault ==
    /\ pc = "init_intensity"
    /\ LET r == InitIntensityResult(<<>>, <<>>, <<>>, intensity_list)
       IN /\ intensity_list' = r.list
          /\ error' = r.error
          /\ pc' = IF r.error = "none" THEN "set_highlight_intensities"
                   ELSE "raised"
    /\ UNCHANGED <<contexts, source_records, autofix>>
    /\ UNCHANGED <<paths, call, other, process, plan>>
    /\ UNCHANGED <<messages, window, min_duration, threshold_constant,
                   keyword_limit, frequency, fre_mov_avg, exp_mov_avg,
                   highlight_annotation, highlights>>

SetHighlightIntensities ==
    /\ pc = "set_highlight_intensities"
    /\ IF highlights = <<>>
       THEN /\ pc' = "get_highlight_messages"
            /\ UNCHANGED <<highlights, error>>
       ELSE \E down \in ProductRoundings(highlights, intensity_list) :
               LET r == ComputeIntensities(highlights, intensity_list, down)
               IN /\ highlights' = r.list
                  /\ error' = r.error
                  /\ pc' = IF r.error = "none" THEN "get_highlight_messages"
                           ELSE "raised"
    /\ UNCHANGED <<intensity_list, contexts, source_records, autofix>>
    /\ UNCHANGED <<paths, call, other, process, plan>>
    /\ UNCHANGED <<messages, window, min_duration, threshold_constant,
                   keyword_limit, frequency, fre_mov_avg, exp_mov_avg,
                   highlight_annotation>>

GetHighlightMessages ==
    /\ pc = "get_highlight_messages"
    /\ highlights' = ComputeHighlightMessages(messages, highlights)
    /\ pc' = "get_highlight_keyphrases"
    /\ UNCHANGED <<intensity_list, contexts, source_records, autofix>>
    /\ UNCHANGED <<paths, call, other, process, plan>>
    /\ UNCHANGED <<messages, window, min_duration, threshold_constant,
                   keyword_limit, frequency, fre_mov_avg, exp_mov_avg,
                   highlight_annotation, error>>

GetHighlightKeyphrases ==
    /\ pc = "get_highlight_keyphrases"
    /\ highlights' = ComputeHighlightKeyphrases(highlights, keyword_limit)
    /\ process' = ProcessAfterKeyphrases(process, highlights)
    /\ pc' = "get_contexts"
    /\ UNCHANGED <<intensity_list, contexts, source_records, autofix>>
    /\ UNCHANGED <<paths, call, other, plan>>
    /\ UNCHANGED <<messages, window, min_duration, threshold_constant,
                   keyword_limit, frequency, fre_mov_avg, exp_mov_avg,
                   highlight_annotation, error>>

\* get_highlight_keywords, the deprecated stage a caller runs in the place
\* of get_highlight_keyphrases
GetHighlightKeywords ==
    /\ pc = "get_highlight_keyphrases"
    /\ \E order \in SetOrders(highlights) :
          highlights' = ComputeHighlightKeywords(highlights, keyword_limit, order,
                                                 process.keyword_filters)
    /\ process' = ProcessAfterKeywords(process, highlights')
    /\ pc' = "get_contexts"
    /\ UNCHANGED <<intensity_list, contexts, source_records, autofix>>
    /\ UNCHANGED <<paths, call, other, plan>>
    /\ UNCHANGED <<messages, window, min_duration, threshold_constant,
                   keyword_limit, frequency, fre_mov_avg, exp_mov_avg,
                   highlight_annotation, error>>

\* read_contexts_from_sources: the records of every source file, in path
\* order
ReadContextsFromSources ==
    /\ pc = "read_contexts"
    /\ contexts' = source_records
    /\ pc' = "check_contexts"
    /\ UNCHANGED <<intensity_list, source_records, autofix, error>>
    /\ UNCHANGED <<paths, call, other, process, plan>>
    /\ UNCHANGED <<messages, window, min_duration, threshold_constant,
                   keyword_limit, frequency, fre_mov_avg, exp_mov_avg,
                   highlight_annotation, highlights>>

\* _check_contexts(autofix), called on the contexts just read or called
\* again after a call without autofix has raised
CheckContexts ==
    /\ pc = "check_contexts" \/ (pc = "check_failed" /\ ~autofix)
    /\ \E fix \in BOOLEAN :
          LET r == CheckContextsResult(contexts, fix)
          IN /\ contexts' = r.contexts
             /\ error' = r.error
             /\ autofix' = fix
             /\ pc' = IF r.error = "none" THEN "parse_contexts" ELSE "check_failed"
    /\ UNCHANGED <<intensity_list, source_records>>
    /\ UNCHANGED <<paths, call, other, process, plan>>
    /\ UNCHANGED <<messages, window, min_duration, threshold_constant,
                   keyword_limit, frequency, fre_mov_avg, exp_mov_avg,
                   highlight_annotation, highlights>>

\* get_contexts(autofix)
GetContexts ==
    /\ pc = "get_contexts"
    /\ \E fix \in BOOLEAN :
          LET r == GetContextsResult(source_records, fix)
          IN /\ contexts' = r.contexts
             /\ error' = r.error
             /\ autofix' = fix
             /\ pc' = IF r.error = "none" THEN "guess_context" ELSE "raised"
    /\ UNCHANGED <<intensity_list, source_records>>
    /\ UNCHANGED <<paths, call, other, process, plan>>
    /\ UNCHANGED <<messages, window, min_duration, threshold_constant,
                   keyword_limit, frequency, fre_mov_avg, exp_mov_avg,
                   highlight_annotation, highlights>>

GuessContext ==
    /\ pc = "guess_context"
    /\ highlights' = ComputeGuessedContexts(highlights, contexts)
    /\ pc' = "done"
    /\ UNCHANGED <<intensity_list, contexts, source_records, autofix>>
    /\ UNCHANGED <<paths, call, other, process, plan>>
    /\ UNCHANGED <<messages, window, min_duration, threshold_constant,
                   keyword_limit, frequency, fre_mov_avg, exp_mov_avg,
                   highlight_annotation, error>>

----------------------------------------------------------------------------
(* Calls of the source manager of an analyser that is not analysing *)

PathChoices == {"a.json", "b.json", "c.json"}

PathArgs == {Absent, Given("")} \cup {Given(p) : p \in PathChoices}

IndexArgs == {Absent} \cup {Given(k) : k \in -1..MaxIndex}

SourceAdd ==
    /\ pc = "source"
    /\ \E full_path \in PathArgs :
          LET r == AddResult(paths, full_path)
          IN /\ paths' = r.paths
             /\ error' = r.error
             /\ call' = [op |-> "add", full_path |-> full_path]
    /\ UNCHANGED <<messages, window, min_duration, threshold_constant,
                   keyword_limit, frequency, fre_mov_avg, exp_mov_avg,
                   highlight_annotation, highlights, pc, intensity_list,
                   contexts, source_records, autofix, other,
                   process, plan>>

SourceRemove ==
    /\ pc = "source"
    /\ \E byPath \in PathArgs, byIndex \in IndexArgs :
          LET r == RemoveResult(paths, byPath, byIndex)
          IN /\ paths' = r.paths
             /\ error' = r.error
             /\ call' = [op |-> "remove", byPath |-> byPath, byIndex |-> byIndex]
    /\ UNCHANGED <<messages, window, min_duration, threshold_constant,
                   keyword_limit, frequency, fre_mov_avg, exp_mov_avg,
                   highlight_annotation, highlights, pc, intensity_list,
                   contexts, source_records, autofix, other,
                   process, plan>>

SourceUpdate ==
    /\ pc = "source"
    /\ \E old_path \in PathArgs, new_path \in PathArgs :
          LET r == UpdateResult(paths, old_path, new_path)
          IN /\ paths' = r.paths
             /\ error' = r.error
             /\ call' = [op |-> "update", old_path |-> old_path,
                         new_path |-> new_path]
    /\ UNCHANGED <<messages, window, min_duration, threshold_constant,
                   keyword_limit, frequency, fre_mov_avg, exp_mov_avg,
                   highlight_annotation, highlights, pc, intensity_list,
                   contexts, source_records, autofix, other,
                   process, plan>>

SourceReset ==
    /\ pc = "source"
    /\ paths' = <<>>
    /\ error' = "none"
    /\ call' = [op |-> "reset"]
    /\ UNCHANGED <<messages, window, min_duration, threshold_constant,
                   keyword_limit, frequency, fre_mov_avg, exp_mov_avg,
                   highlight_annotation, highlights, pc, intensity_list,
                   contexts, source_records, autofix, other,
                   process, plan>>

----------------------------------------------------------------------------
(* Inputs *)

\* all sequences over S of length lo..hi
SeqsOf(S, lo, hi) == UNION {[1..n -> S] : n \in lo..hi}

IsSortedByTime(msgs) ==
    \A i \in 1..(Len(msgs) - 1) : msgs[i].time <= msgs[i + 1].time

\* the default text of a message whose content plays no role
PlainText == <<"m", "s", "g">>

\* Message.emotes defaults to the empty list
NewMessage(t, text) == [time |-> t, text |-> text, emotes |-> <<>>]

\* refined messages: non-negative integer times in non-decreasing order;
\* the first message is at any second up to MaxTime and each later message
\* follows the previous one by at most MaxGap seconds
TimesFrom(t0, gaps) ==
    [i \in 1..(Len(gaps) + 1) |-> t0 + SeqSum([j \in 1..(i - 1) |-> gaps[j]])]

FrontTimes ==
    {<<>>} \cup {TimesFrom(t0, gaps) :
                    t0 \in 0..MaxTime, gaps \in SeqsOf(0..MaxGap, 0, MaxMsgs - 1)}

FrontMessages ==
    {[i \in 1..Len(ts) |-> NewMessage(ts[i], PlainText)] : ts \in FrontTimes}

NoCall == [op |-> "none"]

NoOther == [pc |-> "absent"]

\* one analyser whose source manager holds the default path and has not
\* been called since
SingleAnalyser ==
    /\ paths = <<DefaultContextPath>>
    /\ call = NoCall
    /\ other = NoOther
    /\ process = ProcessAtStart(DefaultFile(source_records))
    /\ plan = NoPlan

\* intensity and context fields before init_intensity and get_contexts
\* have run (self.contexts is not a list yet and is read by no stage
\* before read_contexts_from_sources replaces it)
NoContextFields ==
    /\ intensity_list = <<>>
    /\ contexts = <<>>
    /\ source_records = <<>>
    /\ autofix = FALSE
    /\ SingleAnalyser

\* fields as ChatAnalyser.__init__ leaves them
FreshFields ==
    /\ frequency = <<>>
    /\ fre_mov_avg = <<>>
    /\ exp_mov_avg = <<>>
    /\ highlight_annotation = <<>>
    /\ highlights = <<>>
    /\ error = "none"
    /\ NoContextFields

----------------------------------------------------------------------------
(* Front of the pipeline: messages -> frequency -> moving average ->        *)
(* smoothed series -> annotation -> highlights                             *)

InitFront ==
    /\ messages \in FrontMessages
    /\ window \in 2..MaxWindow
    /\ min_duration = DefaultMinDuration
    /\ threshold_constant = DefaultThreshold
    /\ keyword_limit = DefaultKeywordLimit
    /\ FreshFields
    /\ pc = "get_frequency"

NextFront ==
    \/ GetFrequency
    \/ CalculateMovingAverage
    \/ SmoothenMovAvg
    \/ CreateHighlightAnnotation
    \/ DetectHighlightTimes

SpecFront == InitFront /\ [][NextFront]_vars

----------------------------------------------------------------------------
(* Trend annotation and highlight detection over a smoothed series drawn   *)
(* from a bounded set (values in abstract units)                           *)

InitDetect ==
    /\ messages = <<>>
    /\ window = 2
    /\ min_duration \in 1..MaxMinDuration
    /\ threshold_constant = DefaultThreshold
    /\ keyword_limit = DefaultKeywordLimit
    /\ frequency = <<>>
    /\ fre_mov_avg = <<>>
    /\ exp_mov_avg \in SeqsOf(0..MaxVal, 1, MaxSeriesLen)
    /\ highlight_annotation = <<>>
    /\ highlights = <<>>
    /\ error = "none"
    /\ NoContextFields
    /\ pc = "create_highlight_annotation"

NextDetect ==
    \/ CreateHighlightAnnotation
    \/ DetectHighlightTimes
    \/ CorrectHighlights

SpecDetect == InitDetect /\ [][NextDetect]_vars

----------------------------------------------------------------------------
(* Highlight lists as detect_highlight_times produces them: ordered by     *)
(* start time, each starting at least one second after the previous one    *)
(* closed, never at second 0, at least min_duration long, with a           *)
(* non-negative frequency delta                                            *)

\* the list with the given gaps (seconds between the previous closing index
\* and the start), durations and deltas
HighlightsFrom(gaps, durs, deltas) ==
    [i \in 1..Len(durs) |->
        NewHighlight(SeqSum([j \in 1..i |-> gaps[j]]) +
                         SeqSum([j \in 1..(i - 1) |-> durs[j]]),
                     durs[i], deltas[i])]

DetectedLists(maxLen, minDur, maxDur, maxGap, maxDelta) ==
    UNION {{HighlightsFrom(gaps, durs, deltas) :
                gaps \in [1..n -> 1..maxGap],
                durs \in [1..n -> minDur..maxDur],
                deltas \in [1..n -> 1..maxDelta]} : n \in 0..maxLen}

----------------------------------------------------------------------------
(* Highlight correction over highlight lists drawn from a bounded set *)

InitCorrect ==
    /\ messages = <<>>
    /\ window = 2
    /\ min_duration \in 1..MaxMinDuration
    /\ threshold_constant \in 1..MaxThreshold
    /\ keyword_limit = DefaultKeywordLimit
    /\ frequency = <<>>
    /\ fre_mov_avg = <<>>
    /\ exp_mov_avg = <<>>
    /\ highlight_annotation = <<>>
    /\ highlights \in DetectedLists(MaxHighlights, min_duration, MaxDuration,
                                    MaxHlGap, MaxDelta)
    /\ error = "none"
    /\ NoContextFields
    /\ pc = "correct_highlights"

NextCorrect == CorrectHighlights

SpecCorrect == InitCorrect /\ [][NextCorrect]_vars

NextRecorrect ==
    \/ CorrectHighlights
    \/ CorrectHighlightsAgain

SpecRecorrect == InitCorrect /\ [][NextRecorrect]_vars

----------------------------------------------------------------------------
(* Intensity levels and their assignment over bounded highlight lists *)

InitIntensityStage ==
    /\ messages = <<>>
    /\ window = 2
    /\ min_duration = 1
    /\ threshold_constant = DefaultThreshold
    /\ keyword_limit = DefaultKeywordLimit
    /\ frequency = <<>>
    /\ fre_mov_avg = <<>>
    /\ exp_mov_avg = <<>>
    /\ highlight_annotation = <<>>
    /\ highlights \in DetectedLists(MaxIntensityHighlights, 1, 2, 1, MaxFdelta)
    /\ error = "none"
    /\ NoContextFields
    /\ pc = "init_intensity"

NextIntensity ==
    \/ InitIntensity
    \/ SetHighlightIntensities

SpecIntensity == InitIntensityStage /\ [][NextIntensity]_vars

----------------------------------------------------------------------------
(* Message attribution and keyphrase extraction over time-sorted messages  *)
(* and highlight lists drawn from bounded sets                             *)

TextChoices == {<<"g", "g">>, <<"g", "g", " ", "w", "p">>}

AttrTimes ==
    {<<>>} \cup {TimesFrom(t0, gaps) :
                    t0 \in 0..MaxAttrTime, gaps \in SeqsOf(0..MaxGap, 0, MaxAttrMsgs - 1)}

AttrMessages ==
    UNION {{[i \in 1..Len(ts) |-> NewMessage(ts[i], texts[i])] :
                texts \in [1..Len(ts) -> TextChoices]} : ts \in AttrTimes}

InitAttr ==
    /\ messages \in AttrMessages
    /\ window = 2
    /\ min_duration = 2
    /\ threshold_constant = DefaultThreshold
    /\ keyword_limit \in {1, DefaultKeywordLimit}
    /\ frequency = <<>>
    /\ fre_mov_avg = <<>>
    /\ exp_mov_avg = <<>>
    /\ highlight_annotation = <<>>
    /\ highlights \in DetectedLists(MaxAttrHighlights, 2, 3, MaxHlGap, 1)
    /\ error = "none"
    /\ NoContextFields
    /\ pc = "get_highlight_messages"

NextAttr ==
    \/ GetHighlightMessages
    \/ GetHighlightKeyphrases

SpecAttr == InitAttr /\ [][NextAttr]_vars

----------------------------------------------------------------------------
(* Keyphrase extraction over one highlight whose messages are drawn from   *)
(* texts with words and punctuation marks separated by blanks              *)

KeyTexts ==
    {<<";", " ", ";", " ", "g", "g">>, <<"g", "g", " ", "w", "p">>,
     <<"g", "g">>, <<"w", "p">>}

\* a highlight from second 1 to second 4 holding messages with these texts
HighlightWith(texts) ==
    [NewHighlight(1, 3, 1) EXCEPT
        !.messages = [i \in 1..Len(texts) |-> NewMessage(2, texts[i])]]

InitKeyphrase ==
    /\ \E texts \in SeqsOf(KeyTexts, 0, MaxKeyMsgs) :
          /\ highlights = <<HighlightWith(texts)>>
          /\ messages = HighlightWith(texts).messages
    /\ window = 2
    /\ min_duration = 2
    /\ threshold_constant = DefaultThreshold
    /\ keyword_limit \in {1, DefaultKeywordLimit}
    /\ frequency = <<>>
    /\ fre_mov_avg = <<>>
    /\ exp_mov_avg = <<>>
    /\ highlight_annotation = <<>>
    /\ error = "none"
    /\ NoContextFields
    /\ pc = "get_highlight_keyphrases"

NextKeyphrase == GetHighlightKeyphrases

SpecKeyphrase == InitKeyphrase /\ [][NextKeyphrase]_vars

----------------------------------------------------------------------------
(* The two keyword stages over two highlights whose messages mix case,     *)
(* punctuation and repeated words, some of them carrying an emote          *)

KeywordTexts ==
    {<<"g", "g", " ", "w", "p">>, <<"w", "p", " ", "g", "g">>, <<"G", "G", "!">>,
     <<"w", "p">>, <<";", " ", " ", "g", "g">>, <<"l", "e", "t", "'", "s">>}

NewEmoteMessage(t, text, emotes) == [NewMessage(t, text) EXCEPT !.emotes = emotes]

\* a highlight at this second whose messages have these texts, those at
\* the positions of `with` carrying the emote
EmoteHighlight(time, texts, with) ==
    [NewHighlight(time, 3, 1) EXCEPT
        !.messages = [i \in 1..Len(texts) |->
            NewEmoteMessage(time + 1, texts[i],
                            IF i \in with THEN <<"emote1">> ELSE <<>>)]]

InitKeywords ==
    /\ \E texts \in SeqsOf(KeywordTexts, 0, MaxKeyMsgs), with \in SUBSET {1, 2},
          later \in {<<>>, <<<<"g", "g">>, <<"g", "g">>>>} :
          /\ highlights = <<EmoteHighlight(1, texts, with), EmoteHighlight(5, later, {2})>>
          /\ messages = highlights[1].messages \o highlights[2].messages
    /\ window = 2
    /\ min_duration = 2
    /\ threshold_constant = DefaultThreshold
    /\ keyword_limit \in {1, DefaultKeywordLimit}
    /\ frequency = <<>>
    /\ fre_mov_avg = <<>>
    /\ exp_mov_avg = <<>>
    /\ highlight_annotation = <<>>
    /\ error = "none"
    /\ NoContextFields
    /\ pc = "get_highlight_keyphrases"

NextKeywords ==
    \/ GetHighlightKeywords
    \/ GetHighlightKeyphrases

SpecKeywords == InitKeywords /\ [][NextKeywords]_vars

----------------------------------------------------------------------------
(* Keyphrase extraction over one highlight whose messages are a stop word, *)
(* a stop punctuation mark or another word                                 *)

StopTexts == {<<"t", "h", "e">>, <<"!">>, <<"g", "g">>}

InitStop ==
    /\ \E texts \in SeqsOf(StopTexts, 0, MaxStopMsgs) :
          /\ highlights = <<HighlightWith(texts)>>
          /\ messages = HighlightWith(texts).messages
    /\ window = 2
    /\ min_duration = 2
    /\ threshold_constant = DefaultThreshold
    /\ keyword_limit \in {1, DefaultKeywordLimit}
    /\ frequency = <<>>
    /\ fre_mov_avg = <<>>
    /\ exp_mov_avg = <<>>
    /\ highlight_annotation = <<>>
    /\ error = "none"
    /\ NoContextFields
    /\ pc = "get_highlight_keyphrases"

NextStop == GetHighlightKeyphrases

SpecStop == InitStop /\ [][NextStop]_vars

----------------------------------------------------------------------------
(* Context records held by the source files: well-formed records, two of   *)
(* them with the same reaction_to, and records lacking a key                *)

PhraseGG == <<"g", "g">>

PhraseG == <<"g">>

PhraseEmote == <<":", "G", "G", ":">>

RawChoices ==
    {RawContext(TRUE, "hype", TRUE, <<RawTrigger(TRUE, PhraseGG, TRUE, TRUE)>>),
     RawContext(TRUE, "hype", TRUE, <<RawTrigger(TRUE, PhraseG, TRUE, FALSE)>>),
     RawContext(TRUE, "funny", TRUE, <<RawTrigger(TRUE, PhraseEmote, TRUE, TRUE)>>),
     RawContext(FALSE, "", TRUE, <<RawTrigger(TRUE, PhraseGG, TRUE, TRUE)>>),
     RawContext(TRUE, "hype", FALSE, <<>>),
     RawContext(TRUE, "funny", TRUE, <<RawTrigger(FALSE, <<>>, TRUE, TRUE)>>)}

InitContexts ==
    /\ messages = <<>>
    /\ window = 2
    /\ min_duration = DefaultMinDuration
    /\ threshold_constant = DefaultThreshold
    /\ keyword_limit = DefaultKeywordLimit
    /\ frequency = <<>>
    /\ fre_mov_avg = <<>>
    /\ exp_mov_avg = <<>>
    /\ highlight_annotation = <<>>
    /\ highlights = <<>>
    /\ error = "none"
    /\ intensity_list = <<>>
    /\ contexts = <<>>
    /\ source_records \in SeqsOf(RawChoices, 0, MaxRecords)
    /\ autofix = FALSE
    /\ pc = "read_contexts"
    /\ SingleAnalyser

NextContexts ==
    \/ ReadContextsFromSources
    \/ CheckContexts

SpecContexts == InitContexts /\ [][NextContexts]_vars

----------------------------------------------------------------------------
(* Context loading and guessing over highlights whose keywords are drawn   *)
(* from a bounded set                                                      *)

KeywordChoices == {<<"G", "G">>, <<":", "G", "G", ":">>}

\* a highlight as the keyphrase stage leaves it, with these keywords
HighlightWithKeywords(i, keywords) ==
    [NewHighlight(4 * i, 3, 1) EXCEPT !.keywords = keywords]

GuessHighlights ==
    UNION {{[i \in 1..n |-> HighlightWithKeywords(i, kws[i])] :
                kws \in [1..n -> SeqsOf(KeywordChoices, 0, MaxKeywords)]} :
           n \in 0..MaxGuessHighlights}

InitGuess ==
    /\ messages = <<>>
    /\ window = 2
    /\ min_duration = DefaultMinDuration
    /\ threshold_constant = DefaultThreshold
    /\ keyword_limit = DefaultKeywordLimit
    /\ frequency = <<>>
    /\ fre_mov_avg = <<>>
    /\ exp_mov_avg = <<>>
    /\ highlight_annotation = <<>>
    /\ highlights \in GuessHighlights
    /\ error = "none"
    /\ intensity_list = <<>>
    /\ contexts = <<>>
    /\ source_records \in SeqsOf(RawChoices, 0, MaxGuessRecords)
    /\ autofix = FALSE
    /\ pc = "get_contexts"
    /\ SingleAnalyser

NextGuess ==
    \/ GetContexts
    \/ GuessContext

SpecGuess == InitGuess /\ [][NextGuess]_vars

----------------------------------------------------------------------------
(* The source manager of an analyser built without a default context path, *)
(* under any sequence of calls                                             *)

InitSource ==
    /\ messages = <<>>
    /\ window = 2
    /\ min_duration = DefaultMinDuration
    /\ threshold_constant = DefaultThreshold
    /\ keyword_limit = DefaultKeywordLimit
    /\ frequency = <<>>
    /\ fre_mov_avg = <<>>
    /\ exp_mov_avg = <<>>
    /\ highlight_annotation = <<>>
    /\ highlights = <<>>
    /\ error = "none"
    /\ intensity_list = <<>>
    /\ contexts = <<>>
    /\ source_records = <<>>
    /\ autofix = FALSE
    /\ paths = <<>>
    /\ call = NoCall
    /\ other = NoOther
    /\ process = ProcessAtStart(DefaultFile(source_records))
    /\ plan = NoPlan
    /\ pc = "source"

NextSource ==
    \/ SourceAdd
    \/ SourceRemove
    \/ SourceUpdate
    \/ SourceReset

SpecSource == InitSource /\ [][NextSource]_vars

----------------------------------------------------------------------------
(* Construction of an analyser and analyse() up to init_intensity, over    *)
(* short streams that start in the first seconds                           *)

AnalyseTimes ==
    {<<>>} \cup {TimesFrom(t0, gaps) :
                    t0 \in 0..MaxAnalyseTime,
                    gaps \in SeqsOf(0..MaxGap, 0, MaxAnalyseMsgs - 1)}

AnalyseMessages ==
    {[i \in 1..Len(ts) |-> NewMessage(ts[i], PlainText)] : ts \in AnalyseTimes}

\* the arguments of the constructor are chosen, no field is set yet
InitAnalyse ==
    /\ messages \in AnalyseMessages
    /\ window \in 1..MaxWindow
    /\ min_duration = DefaultMinDuration
    /\ threshold_constant = DefaultThreshold
    /\ keyword_limit = DefaultKeywordLimit
    /\ frequency = <<>>
    /\ fre_mov_avg = <<>>
    /\ exp_mov_avg = <<>>
    /\ highlight_annotation = <<>>
    /\ highlights = <<>>
    /\ error = "none"
    /\ intensity_list = <<>>
    /\ contexts = <<>>
    /\ source_records = <<>>
    /\ autofix = FALSE
    /\ paths = <<>>
    /\ call = NoCall
    /\ other = NoOther
    /\ process = ProcessAtStart(DefaultFile(source_records))
    /\ plan = NoPlan
    /\ pc = "construct"

NextAnalyse ==
    \/ Construct
    \/ GetFrequency
    \/ CalculateMovingAverage
    \/ SmoothenMovAvg
    \/ CreateHighlightAnnotation
    \/ DetectHighlightTimes
    \/ CorrectHighlights
    \/ InitIntensity

SpecAnalyse == InitAnalyse /\ [][NextAnalyse]_vars

----------------------------------------------------------------------------
(* Two analysers, each constructed on its own message stream, in one       *)
(* Python process.  The first one is held by the variables of the module,  *)
(* the second one by the record `other`, whose fields are the attributes   *)
(* that ChatAnalyser.__init__ assigns to self.  What the two can both      *)
(* reach is held by `process`: a stage reads and writes the attributes of  *)
(* its own analyser and the process.  The host runs analyse() stage by     *)
(* stage, with get_highlight_keyphrases or with the deprecated             *)
(* get_highlight_keywords in its place, as `plan` says for each analyser.  *)

\* self.keyword_filters of an analyser constructed without the argument:
\* the list of the default argument, which the process holds
DefaultArgument == "keyword_filters=[]"

\* the attributes of an analyser just constructed; self.contexts is not a
\* list yet, self.source.paths holds default_context_path
NewAnalyser(msgs, w, min_dur, tc, limit, default_context_path) ==
    [messages |-> msgs, window |-> w, min_duration |-> min_dur,
     threshold_constant |-> tc, keyword_limit |-> limit,
     keyword_filters |-> DefaultArgument,
     frequency |-> <<>>, intensity_list |-> <<>>, fre_mov_avg |-> <<>>,
     exp_mov_avg |-> <<>>, highlight_annotation |-> <<>>, highlights |-> <<>>,
     contexts |-> <<>>,
     paths |-> AddResult(<<>>, Given(default_context_path)).paths,
     pc |-> "get_frequency", error |-> "none"]

\* the list self.keyword_filters of analyser a names
SelfKeywordFilters(a, p) ==
    IF a.keyword_filters = DefaultArgument THEN p.keyword_filters
    ELSE a.keyword_filters

\* read_contexts_from_sources: the records of the files at the paths, in
\* path order
ReadSources(files, source_paths) ==
    Concat([k \in 1..Len(source_paths) |-> files[source_paths[k]]])

\* analysers S next to the process p
BesideProcess(S, p) == {[a |-> x, p |-> p] : x \in S}

\* get_highlight_keyphrases or get_highlight_keywords run on analyser a
KeywordStageOutcomes(a, p, method) ==
    IF method = "keyphrases"
    THEN {[a |-> [a EXCEPT !.highlights =
                              ComputeHighlightKeyphrases(a.highlights, a.keyword_limit),
                           !.pc = "get_contexts"],
           p |-> ProcessAfterKeyphrases(p, a.highlights)]}
    ELSE {LET list == ComputeHighlightKeywords(a.highlights, a.keyword_limit, order,
                                               SelfKeywordFilters(a, p))
          IN [a |-> [a EXCEPT !.highlights = list, !.pc = "get_contexts"],
              p |-> ProcessAfterKeywords(p, list)] :
             order \in SetOrders(a.highlights)}

\* get_contexts(autofix) run on analyser a, for either value of autofix
ContextStageOutcomes(a, p) ==
    {LET r == GetContextsResult(ReadSources(p.files, a.paths), fix)
     IN [a |-> [a EXCEPT !.contexts = r.contexts, !.error = r.error,
                         !.pc = IF r.error = "none" THEN "guess_context"
                                ELSE "raised"],
         p |-> p] :
        fix \in BOOLEAN}

\* the next stage of analyse() without intensity lists, run on analyser a
\* in the process p: the analysers and processes it can leave, one for
\* each rounding of the float sums and products of the stage
StageOutcomes(a, p, method) ==
    CASE a.pc = "get_frequency" ->
            BesideProcess(
                IF a.messages = <<>>
                THEN {[a EXCEPT !.error = "IndexError", !.pc = "raised"]}
                ELSE {[a EXCEPT !.frequency = ComputeFrequency(a.messages),
                                !.pc = "calculate_moving_average"]}, p)
      [] a.pc = "calculate_moving_average" ->
            BesideProcess(
                {[a EXCEPT !.fre_mov_avg = ComputeMovingAverage(a.frequency, a.window),
                           !.pc = "smoothen_mov_avg"]}, p)
      [] a.pc = "smoothen_mov_avg" ->
            BesideProcess(
                IF a.fre_mov_avg = <<>>
                THEN {[a EXCEPT !.error = "ValueError", !.pc = "raised"]}
                ELSE {[a EXCEPT !.exp_mov_avg = Smoothen(DictValues(a.fre_mov_avg),
                                                         KernelWidth, r),
                                !.pc = "create_highlight_annotation"] :
                         r \in Roundings(DictValues(a.fre_mov_avg), KernelWidth)}, p)
      [] a.pc = "create_highlight_annotation" ->
            BesideProcess(
                {[a EXCEPT !.highlight_annotation = ComputeAnnotation(a.exp_mov_avg),
                           !.pc = "detect_highlight_times"]}, p)
      [] a.pc = "detect_highlight_times" ->
            BesideProcess(
                {[a EXCEPT !.highlights = ComputeHighlights(a.highlight_annotation,
                                              a.exp_mov_avg, a.min_duration),
                           !.pc = "correct_highlights"]}, p)
      [] a.pc = "correct_highlights" ->
            BesideProcess(
                {[a EXCEPT !.highlights = ComputeCorrected(a.highlights,
                                                           a.threshold_constant),
                           !.pc = "init_intensity"]}, p)
      [] a.pc = "init_intensity" ->
            BesideProcess(
                LET r == InitIntensityResult(<<>>, <<>>, <<>>, a.intensity_list)
                IN {[a EXCEPT !.intensity_list = r.list, !.error = r.error,
                              !.pc = IF r.error = "none" THEN "set_highlight_intensities"
                                     ELSE "raised"]}, p)
      [] a.pc = "set_highlight_intensities" ->
            BesideProcess(
                IF a.highlights = <<>>
                THEN {[a EXCEPT !.pc = "get_highlight_messages"]}
                ELSE {LET r == ComputeIntensities(a.highlights, a.intensity_list, down)
                      IN [a EXCEPT !.highlights = r.list, !.error = r.error,
                                   !.pc = IF r.error = "none" THEN "get_highlight_messages"
                                          ELSE "raised"] :
                         down \in ProductRoundings(a.highlights, a.intensity_list)}, p)
      [] a.pc = "get_highlight_messages" ->
            BesideProcess(
                {[a EXCEPT !.highlights = ComputeHighlightMessages(a.messages,
                                                                   a.highlights),
                           !.pc = "get_highlight_keyphrases"]}, p)
      [] a.pc = "get_highlight_keyphrases" -> KeywordStageOutcomes(a, p, method)
      [] a.pc = "get_contexts" -> ContextStageOutcomes(a, p)
      [] a.pc = "guess_context" ->
            BesideProcess(
                {[a EXCEPT !.highlights = ComputeGuessedContexts(a.highlights, a.contexts),
                           !.pc = "done"]}, p)
      [] OTHER -> {[a |-> a, p |-> p]}

AnalysisOver(p) == p \in {"done", "raised"}

\* analyse() run from run.a in the process run.p with nothing in between,
\* its keyword stage the one of run.method: the analysers it can end with
RECURSIVE RunAloneOutcomes(_)
RunAloneOutcomes(run) ==
    IF AnalysisOver(run.a.pc) THEN {run.a}
    ELSE UNION {RunAloneOutcomes([a |-> next.a, p |-> next.p, method |-> run.method]) :
                   next \in StageOutcomes(run.a, run.p, run.method)}

\* one stage of the analysis run by the second analyser
OtherStage ==
    /\ other # NoOther
    /\ ~AnalysisOver(other.pc)
    /\ \E next \in StageOutcomes(other, process, plan.other) :
          /\ other' = next.a
          /\ process' = next.p
    /\ UNCHANGED <<messages, window, min_duration, threshold_constant,
                   keyword_limit, frequency, fre_mov_avg, exp_mov_avg,
                   highlight_annotation, highlights, pc, error>>
    /\ UNCHANGED <<intensity_list, contexts, source_records, autofix, paths, call,
                   plan>>

\* the keyword stage of the first analyser, as the host has planned it
FirstKeyphrases == plan.first = "keyphrases" /\ GetHighlightKeyphrases

FirstKeywords == plan.first = "keywords" /\ GetHighlightKeywords

\* messages of one text at the given seconds
StreamAt(ts, text) == [i \in 1..Len(ts) |-> NewMessage(ts[i], text)]

\* the seconds of a stream with one message in each second, b in second 2
BurstTimes(b) ==
    Concat([s \in 1..MaxTwoSecs |-> [k \in 1..(IF s = 2 THEN b ELSE 1) |-> s]])

\* the text of every message of the first and of the second analyser
FirstText == <<"g", "g">>

OtherText == <<"N", "i", "c", "e", ".", " ", "g", "g">>

\* streams of MaxTwoSecs seconds with a burst of up to MaxBurst messages in
\* second 2
TwoStreams(text) == {StreamAt(BurstTimes(b), text) : b \in 2..MaxBurst}

\* the stream of the second analyser
OtherStream == StreamAt(BurstTimes(MaxBurst), OtherText)

\* a second context source file
SecondContextPath == "second"

\* the context source files of the two analysers
TwoFiles ==
    [path \in {DefaultContextPath, SecondContextPath} |->
        IF path = DefaultContextPath
        THEN <<RawContext(TRUE, "hype", TRUE, <<RawTrigger(TRUE, PhraseGG, TRUE, TRUE)>>)>>
        ELSE <<RawContext(TRUE, "funny", TRUE, <<RawTrigger(TRUE, PhraseG, TRUE, FALSE)>>)>>]

KeywordMethods == {"keyphrases", "keywords"}

\* the first analyser as it was constructed
FirstAnalyser ==
    NewAnalyser(messages, window, min_duration, threshold_constant, keyword_limit,
                DefaultContextPath)

InitTwo ==
    /\ messages \in TwoStreams(FirstText)
    /\ window = 2
    /\ min_duration = 1
    /\ threshold_constant = DefaultThreshold
    /\ keyword_limit = DefaultKeywordLimit
    /\ frequency = <<>>
    /\ fre_mov_avg = <<>>
    /\ exp_mov_avg = <<>>
    /\ highlight_annotation = <<>>
    /\ highlights = <<>>
    /\ intensity_list = <<>>
    /\ error = "none"
    /\ pc = "get_frequency"
    /\ contexts = <<>>
    /\ paths = <<DefaultContextPath>>
    /\ source_records = ReadSources(TwoFiles, paths)
    /\ autofix = FALSE
    /\ call = NoCall
    /\ process = ProcessAtStart(TwoFiles)
    /\ plan \in [first : KeywordMethods, other : KeywordMethods]
    /\ \E path \in {DefaultContextPath, SecondContextPath} :
          /\ other = NewAnalyser(OtherStream, 3, 1, DefaultThreshold, DefaultKeywordLimit, path)

NextTwo ==
    \/ GetFrequency
    \/ CalculateMovingAverage
    \/ SmoothenMovAvg
    \/ CreateHighlightAnnotation
    \/ DetectHighlightTimes
    \/ CorrectHighlights
    \/ InitIntensityDefault
    \/ SetHighlightIntensities
    \/ GetHighlightMessages
    \/ FirstKeyphrases
    \/ FirstKeywords
    \/ GetContexts
    \/ GuessContext
    \/ OtherStage

SpecTwo == InitTwo /\ [][NextTwo]_vars

----------------------------------------------------------------------------
(* analyse() without intensity lists from the annotation to the keyphrases, *)
(* over smoothed series made of rises and a steady number of messages per  *)
(* second                                                                  *)

\* a rise of d steps from 0 followed by one equal value
RiseBlock(d) == [i \in 1..(d + 2) |-> IF i <= d + 1 THEN i - 1 ELSE d]

OrderRises == {2, 3}

OrderSeries == {Concat([b \in 1..Len(ds) |-> RiseBlock(ds[b])]) :
                   ds \in SeqsOf(OrderRises, 0, MaxBlocks)}

\* the texts a stream repeats: one word, two sentences, punctuation only
OrderTexts == {<<"g", "g">>, <<"N", "i", "c", "e", ".", " ", "g", "g">>, <<"!", "?">>}

\* perSecond messages of one text at each second of the series
SteadyMessages(len, perSecond, text) ==
    [i \in 1..(len * perSecond) |-> NewMessage((i - 1) \div perSecond, text)]

InitOrder ==
    /\ exp_mov_avg \in OrderSeries
    /\ \E perSecond \in 0..MaxPerSecond, text \in OrderTexts :
          messages = IF perSecond = 0 THEN <<>>
                     ELSE SteadyMessages(Len(exp_mov_avg), perSecond, text)
    /\ window = 2
    /\ min_duration = 2
    /\ threshold_constant \in {1, DefaultThreshold}
    /\ keyword_limit = DefaultKeywordLimit
    /\ frequency = <<>>
    /\ fre_mov_avg = <<>>
    /\ highlight_annotation = <<>>
    /\ highlights = <<>>
    /\ error = "none"
    /\ NoContextFields
    /\ pc = "create_highlight_annotation"

NextOrder ==
    \/ CreateHighlightAnnotation
    \/ DetectHighlightTimes
    \/ CorrectHighlights
    \/ InitIntensityDefault
    \/ SetHighlightIntensities
    \/ GetHighlightMessages
    \/ GetHighlightKeyphrases

SpecOrder == InitOrder /\ [][NextOrder]_vars

----------------------------------------------------------------------------
(* Claims about the front of the pipeline (SpecFront) *)

\* the stage has just returned (later stages leave its result untouched)
FrequencyDone == pc = "calculate_moving_average"

MovingAverageDone == pc = "smoothen_mov_avg"

SmoothingDone == pc = "create_highlight_annotation"

MessagesAt(t) == Cardinality({i \in 1..Len(messages) : messages[i].time = t})

LastTime == messages[Len(messages)].time

\* C6: the smoothed series returned by smoothen_mov_avg has exactly the
\* length of the frequency table / moving-average series it was computed
\* from, for every input length, including inputs shorter than the kernel
\* width 40.
C6_SmoothedSameLength ==
    SmoothingDone =>
        /\ Len(exp_mov_avg) = Len(fre_mov_avg)
        /\ Len(exp_mov_avg) = Len(frequency)

\* C7: for a non-empty message sequence with non-negative non-decreasing
\* times, the keys of the frequency table are exactly 0..maxTime in
\* ascending order, the value at each second is the number of messages at
\* that second, and the values sum to the message count.
C7_FrequencyDense ==
    FrequencyDone =>
        /\ DictKeys(frequency) = [i \in 1..(LastTime + 1) |-> i - 1]
        /\ \A i \in 1..Len(frequency) : frequency[i][2] = MessagesAt(frequency[i][1])
        /\ SeqSum(DictValues(frequency)) = Len(messages)

\* a table with an empty second between two seconds that have messages
C7_Witness ==
    /\ FrequencyDone
    /\ \E i, j, k \in 1..Len(frequency) :
          /\ i < j /\ j < k
          /\ frequency[i][2] > 0 /\ frequency[j][2] = 0 /\ frequency[k][2] > 0

\* first position (1-based) of the window that ends at position p
WindowStart(p, W) == Max(1, p - W + 1)

WindowSum(freq, p, W) ==
    SeqSum([q \in 1..(p - WindowStart(p, W) + 1) |-> freq[WindowStart(p, W) + q - 1][2]])

\* C8: with window W > 1 the moving average at the i-th second is the
\* arithmetic mean of the frequency values at positions max(0, i-W+1)..i;
\* the FIFO never holds more than W values, the first W-1 outputs are means
\* over fewer than W samples, and there is one output per frequency key.
C8_MovingAverageWindow ==
    MovingAverageDone =>
        /\ DictKeys(fre_mov_avg) = DictKeys(frequency)
        /\ \A p \in 1..Len(frequency) :
              fre_mov_avg[p][2] * (p - WindowStart(p, window) + 1)
                  = MAScale * WindowSum(frequency, p, window)
        /\ \A n \in 0..Len(frequency) :
              Len(MovAvgLoop(frequency, window, n).stack) <= window

\* a ramp-up mean over fewer than W samples that zero padding would change,
\* in a table longer than the window
C8_Witness ==
    /\ MovingAverageDone
    /\ Len(frequency) > window
    /\ \E p \in 1..(window - 1) :
          /\ fre_mov_avg[p][2] > 0
          /\ fre_mov_avg[p][2] * window # MAScale * WindowSum(frequency, p, window)

----------------------------------------------------------------------------
(* Claims about trend annotation and highlight detection (SpecDetect) *)

AnnotationDone == pc = "detect_highlight_times"

DetectionDone == pc = "correct_highlights"

\* [s, c) is a maximal run of +1 annotations (0-based indices) closed by the
\* non-+1 annotation at index c
IsClosedRun(s, c) ==
    /\ 0 <= s /\ s < c /\ c <= Len(highlight_annotation) - 1
    /\ \A k \in s..(c - 1) : highlight_annotation[k + 1] = 1
    /\ highlight_annotation[c + 1] # 1
    /\ (s = 0 \/ highlight_annotation[s] # 1)

\* the annotations from index s (0-based) to the end are all +1
IsOpenRun(s) ==
    /\ 0 <= s /\ s <= Len(highlight_annotation) - 1
    /\ \A k \in s..(Len(highlight_annotation) - 1) : highlight_annotation[k + 1] = 1
    /\ (s = 0 \/ highlight_annotation[s] # 1)

AnnIndices == 0..Len(highlight_annotation)

\* detector state after the iteration at current_time = t
DetectorAfter(t) ==
    DetectLoop(highlight_annotation, exp_mov_avg, min_duration, t + 1)

\* RUNNING is a truthy start_time
Running(st) == st.start_time # 0

HighlightSet == {highlights[i] : i \in 1..Len(highlights)}

RunDelta(s, c) == exp_mov_avg[c + 1] - exp_mov_avg[s + 1]

\* C4: for every maximal run of +1 annotations beginning at index s (any
\* s >= 0) and closed at index c, the detector enters RUNNING at s with
\* startTime = s and initialValue = smoothed[s], computes duration = c - s
\* and delta = smoothed[c] - smoothed[s] at c, and an emitted highlight
\* carries exactly these startTime, duration and delta.
C4_RunStartDurationDelta ==
    DetectionDone =>
        /\ \A s, c \in AnnIndices :
              IsClosedRun(s, c) =>
                  /\ Running(DetectorAfter(s))
                  /\ DetectorAfter(s).start_time = s
                  /\ DetectorAfter(s).initial_frequency = exp_mov_avg[s + 1]
                  /\ (c - s >= min_duration /\ RunDelta(s, c) >= 0) =>
                        \E h \in HighlightSet :
                            /\ h.time = s
                            /\ h.duration = c - s
                            /\ h.fdelta = RunDelta(s, c)
        /\ \A h \in HighlightSet :
              \E s, c \in AnnIndices :
                  /\ IsClosedRun(s, c)
                  /\ h.time = s
                  /\ h.duration = c - s
                  /\ h.fdelta = RunDelta(s, c)

\* C5: every highlight emitted by detect_highlight_times, and every
\* highlight retained after correct_highlights, has duration >=
\* min_duration and fdelta >= 0; a closed run with duration < min_duration
\* or delta < 0 emits no highlight and returns the detector to IDLE.
C5_EmittedMeetThresholds ==
    /\ pc \in {"correct_highlights", "init_intensity"} =>
          \A h \in HighlightSet : h.duration >= min_duration /\ h.fdelta >= 0
    /\ DetectionDone =>
          \A s, c \in AnnIndices :
              (IsClosedRun(s, c) /\ (c - s < min_duration \/ RunDelta(s, c) < 0)) =>
                  /\ ~ \E h \in HighlightSet : s <= h.time /\ h.time < c
                  /\ ~ Running(DetectorAfter(c))

\* a highlight was emitted and a closed run shorter than min_duration, begun
\* after index 0, was discarded
C5_Witness ==
    /\ DetectionDone
    /\ highlights # <<>>
    /\ \E s, c \in AnnIndices : IsClosedRun(s, c) /\ s >= 1 /\ c - s < min_duration

\* C9: create_highlight_annotation returns a sequence of length
\* len(smoothed) - 1 whose i-th element is +1 if smoothed[i] < smoothed[i+1],
\* -1 if smoothed[i] > smoothed[i+1] and 0 otherwise.
C9_AnnotationSigns ==
    AnnotationDone =>
        /\ Len(highlight_annotation) = Len(exp_mov_avg) - 1
        /\ \A i \in 1..Len(highlight_annotation) :
              /\ (exp_mov_avg[i] < exp_mov_avg[i + 1]) => highlight_annotation[i] = 1
              /\ (exp_mov_avg[i] > exp_mov_avg[i + 1]) => highlight_annotation[i] = -1
              /\ (exp_mov_avg[i] = exp_mov_avg[i + 1]) => highlight_annotation[i] = 0

\* an annotation in which all three signs occur
C9_Witness ==
    /\ AnnotationDone
    /\ {highlight_annotation[i] : i \in 1..Len(highlight_annotation)} = {-1, 0, 1}

\* C10: no forced flush at end of input: when the annotation sequence ends
\* in a run of +1, no highlight is emitted for that open run; every emitted
\* highlight ends strictly before the open run starts.
C10_NoFlushAtEnd ==
    DetectionDone =>
        \A s \in AnnIndices :
            IsOpenRun(s) => \A h \in HighlightSet : h.time + h.duration < s

\* the input ends in an open run, begun after index 0, that is long enough
\* to be a highlight, after an earlier highlight was emitted
C10_Witness ==
    /\ DetectionDone
    /\ highlights # <<>>
    /\ \E s \in AnnIndices :
          /\ IsOpenRun(s) /\ s >= 1
          /\ Len(highlight_annotation) - s >= min_duration

----------------------------------------------------------------------------
(* Claims about highlight correction (SpecCorrect) *)

CorrectionDone == pc = "init_intensity"

\* C3: correct_highlights drops every highlight whose duration <=
\* avgDuration / threshold_constant, avgDuration being the mean duration of
\* the highlights remaining after the first-highlight drop: no such
\* highlight remains in the returned list.  The durations of the list
\* before the call are recovered from the start times, which the call
\* leaves untouched.
C3_NoShortHighlightRemains ==
    [][(pc = "correct_highlights" /\ highlights # <<>>) =>
          LET rest == AfterFirstDrop(highlights)
              total == SeqSum(Durations(rest))
          IN \A i \in 1..Len(highlights') :
                ~(highlights'[i].duration * threshold_constant * Len(rest) <= total)]_vars

\* C12: correct_highlights returns the empty list when given no
\* highlights; given more than one it drops the first before the average
\* is taken (the first is never in the result, and every other highlight
\* longer than the threshold taken over the others is kept); given exactly
\* one it does not drop it as the first (the highlight is judged against
\* its own duration); the result is the list stored on the analyser.
C12_FirstDropRule ==
    [][pc = "correct_highlights" =>
          LET old == highlights
              new == highlights'
              rest == Tail(old)
          IN /\ (old = <<>>) => new = <<>>
             /\ (Len(old) > 1) =>
                   /\ \A i \in 1..Len(new) : new[i] # old[1]
                   /\ \A i \in 1..Len(rest) :
                         ~TooShort(rest[i], SeqSum(Durations(rest)), Len(rest),
                                   threshold_constant)
                             => \E k \in 1..Len(new) : new[k] = rest[i]
                   /\ \A k \in 1..Len(new) : \E i \in 1..Len(rest) : new[k] = rest[i]
             /\ (Len(old) = 1) =>
                   new = IF threshold_constant = 1 THEN <<>> ELSE old]_vars

\* more than one highlight was given (a first highlight starts no later
\* than MaxHlGap), the first is gone and two later ones are kept
C12_Witness ==
    /\ CorrectionDone
    /\ Len(highlights) >= 2
    /\ highlights[1].time > MaxHlGap

\* C11: correct_highlights is idempotent: run again on the list it has
\* just produced, it leaves the list unchanged.
C11_CorrectIdempotent ==
    [][pc = "init_intensity" => highlights' = highlights]_vars

----------------------------------------------------------------------------
(* Claims about message attribution and keyphrases (SpecAttr) *)

AttributionDone == pc = "get_highlight_keyphrases"

KeyphrasesDone == pc = "get_contexts"

\* C2: after get_highlight_messages on a time-sorted message sequence and a
\* time-ordered list of non-overlapping highlights, every message whose
\* time t satisfies start < t < start + duration for some highlight is in
\* that highlight's messages list.
C2_WindowMessagesAttributed ==
    AttributionDone =>
        \A i \in 1..Len(highlights) : \A m \in 1..Len(messages) :
            (highlights[i].time < messages[m].time
                /\ messages[m].time < highlights[i].time + highlights[i].duration)
            => \E k \in 1..Len(highlights[i].messages) :
                    highlights[i].messages[k] = messages[m]

\* C1: after get_highlight_keyphrases every highlight still in the list has
\* at least one keyword, for every input list, including lists with a
\* highlight without messages and lists where two consecutive highlights
\* yield no keyphrase.
C1_RetainedHaveKeyword ==
    KeyphrasesDone =>
        \A i \in 1..Len(highlights) : highlights[i].keywords # <<>>

----------------------------------------------------------------------------
(* Claims about intensity levels (SpecIntensity) *)

IntensitiesDone == pc = "get_highlight_messages" /\ highlights # <<>>

IntensitySet == {intensity_list[i] : i \in 1..Len(intensity_list)}

TotalDelta == SeqSum(Deltas(highlights))

\* fdelta > avgDelta * c, avgDelta being the mean delta of the current
\* highlights and c a constant in tenths
ExceedsThreshold(h, c) == h.fdelta * 10 * Len(highlights) > TotalDelta * c

\* fdelta and avgDelta * c are equal as exact numbers and the float
\* comparison goes the way the product is rounded
RoundedEqual(h, c) ==
    ExactTie(h, TotalDelta, Len(highlights), c) /\ ~UnroundedProduct(highlights, c)

\* C13: set_highlight_intensities takes avgDelta over all current
\* highlights and gives each highlight the configured level with the
\* greatest constant c such that fdelta > avgDelta * c; the call fails only
\* at a highlight for which no level has such a constant.  The comparison
\* is the float one: where fdelta and the product are equal as exact
\* numbers it holds or not as the product is rounded.
C13_GreatestQualifyingLevel ==
    /\ IntensitiesDone =>
          \A i \in 1..Len(highlights) :
              /\ highlights[i].intensity \in IntensitySet
              /\ \/ ExceedsThreshold(highlights[i], highlights[i].intensity.constant)
                 \/ RoundedEqual(highlights[i], highlights[i].intensity.constant)
              /\ \A l \in IntensitySet :
                    l.constant > highlights[i].intensity.constant
                        => ~ExceedsThreshold(highlights[i], l.constant)
    /\ (pc = "raised" /\ error = "AttributeError") =>
          \E i \in 1..Len(highlights) :
              /\ highlights[i].intensity = NoIntensity
              /\ \A l \in IntensitySet : ~ExceedsThreshold(highlights[i], l.constant)

\* three levels are configured and the highlights got two different ones,
\* one of them not the lowest that qualifies
C13_Witness ==
    /\ IntensitiesDone
    /\ Len(intensity_list) = 3
    /\ \E i, j \in 1..Len(highlights) :
          /\ highlights[i].intensity # highlights[j].intensity
          /\ highlights[i].intensity = intensity_list[3]

\* C14: within one run, of two highlights with deltas d1 < d2 the one with
\* d2 never gets a level with a lower constant than the one with d1.
C14_IntensityMonotone ==
    IntensitiesDone =>
        \A i, j \in 1..Len(highlights) :
            highlights[i].fdelta < highlights[j].fdelta
                => highlights[i].intensity.constant <= highlights[j].intensity.constant

\* two highlights with different deltas got different levels and two other
\* highlights with different deltas got the same level
C14_Witness ==
    /\ IntensitiesDone
    /\ \E i, j \in 1..Len(highlights) :
          /\ highlights[i].fdelta < highlights[j].fdelta
          /\ highlights[i].intensity.constant < highlights[j].intensity.constant
    /\ \E i, j \in 1..Len(highlights) :
          /\ highlights[i].fdelta < highlights[j].fdelta
          /\ highlights[i].intensity = highlights[j].intensity

\* C15: init_intensity fails with DifferentListSizeError whenever the
\* levels, constants and colors lists it is given are not all of equal
\* length, and then leaves intensity_list as it was: whatever non-empty
\* lists of unequal lengths account for the outcome of a call, the outcome
\* is that error with the list untouched.
C15_UnequalSizesRejected ==
    [][pc = "init_intensity" =>
          \A levels \in LevelLists, constants \in ConstantLists, colors \in ColorLists :
              (/\ levels # <<>> /\ constants # <<>> /\ colors # <<>>
               /\ ~(Len(levels) = Len(constants) /\ Len(constants) = Len(colors))
               /\ intensity_list' =
                      InitIntensityResult(levels, constants, colors, intensity_list).list
               /\ error' =
                      InitIntensityResult(levels, constants, colors, intensity_list).error)
              => (error' = "DifferentListSizeError"
                    /\ intensity_list' = intensity_list)]_vars

----------------------------------------------------------------------------
(* Claims about the keyphrase finder (SpecKeyphrase) *)

\* the tuples ngram_keyphrase_analysis returns for a highlight, called as
\* get_highlight_keyphrases calls it
AnalysisOf(h) ==
    NgramKeyphraseAnalysis(h.messages, DefaultMaxNgramSize, keyword_limit,
                           keyword_limit, FALSE, DefaultKeyphrasePerNgram,
                           DefaultMinNgramSize, DefaultStoppers)

\* C16: in default mode no phrase accepted from a smaller n-gram size is a
\* substring of a phrase accepted from a larger size, whatever the
\* candidate text, texts made only of punctuation included: the keywords of
\* a highlight are the phrases of the returned tuples, and of two tuples
\* the one of smaller size is no substring of the other.
C16_NoSubstringOfLarger ==
    KeyphrasesDone =>
        \A i \in 1..Len(highlights) :
            LET r == AnalysisOf(highlights[i])
            IN /\ highlights[i].keywords = [k \in 1..Len(r) |-> r[k].phrase]
               /\ \A a, b \in 1..Len(r) :
                     r[a].size > r[b].size => ~IsSubstring(r[b].phrase, r[a].phrase)

----------------------------------------------------------------------------
(* Claims about context guessing (SpecGuess) *)

GuessDone == pc = "done"

\* C17: after guess_context on highlights whose context sets start empty,
\* the contexts of a highlight are the reaction_to names of the contexts
\* that have a trigger matching one of its keywords, a trigger matching
\* when (is_exact and phrase = k) or (not is_exact and phrase is a
\* substring of k), k being the keyword verbatim if it starts and ends with
\* ":" and the lowercased keyword otherwise; an empty set becomes {"None"}.
C17_GuessedContexts ==
    GuessDone =>
        \A i \in 1..Len(highlights) :
            LET kws == highlights[i].keywords
                k(n) == IF kws[n][1] = ":" /\ kws[n][Len(kws[n])] = ":"
                        THEN kws[n] ELSE LowerText(kws[n])
                hit(c) == \E n \in 1..Len(kws), t \in 1..Len(contexts[c].triggers) :
                             LET tr == contexts[c].triggers[t]
                             IN \/ (tr.is_exact /\ tr.phrase = k(n))
                                \/ (~tr.is_exact /\ IsSubstring(tr.phrase, k(n)))
                names == {contexts[c].reaction_to : c \in {c \in 1..Len(contexts) : hit(c)}}
            IN highlights[i].contexts = IF names = {} THEN {"None"} ELSE names

\* a highlight with an emote keyword and a plain keyword got two reactions,
\* one through an exact trigger on the emote as written
C17_Witness ==
    /\ GuessDone
    /\ \E i \in 1..Len(highlights) :
          /\ highlights[i].contexts = {"hype", "funny"}
          /\ Len(highlights[i].keywords) = 2

\* C20: when get_contexts runs with autofix and the source files hold
\* records that are all malformed, ContextsAllCorruptException is raised.
C20_AllCorruptRaises ==
    [][(/\ pc = "get_contexts"
        /\ autofix'
        /\ source_records # <<>>
        /\ \A i \in 1..Len(source_records) : ~Parsable(source_records[i]))
       => error' = "ContextsAllCorruptException"]_vars

----------------------------------------------------------------------------
(* Claims about context checking (SpecContexts) *)

CheckCalled == pc \in {"check_contexts", "check_failed"}

\* the record at position i lacks reaction_to, or repeats the reaction_to
\* of an earlier record
Offending(ctxs, i) ==
    \/ ~ctxs[i].has_reaction_to
    \/ \E j \in 1..(i - 1) :
          ctxs[j].has_reaction_to /\ ctxs[j].reaction_to = ctxs[i].reaction_to

\* C18: without autofix _check_contexts raises at the first record that
\* lacks reaction_to (KeyError) or repeats an earlier reaction_to
\* (DuplicateContextException), and the contexts list is then exactly as
\* before the call.
C18_RaisesAndKeepsList ==
    [][(CheckCalled /\ ~autofix') =>
          \A i \in 1..Len(contexts) :
              (Offending(contexts, i) /\ \A j \in 1..(i - 1) : ~Offending(contexts, j))
              => /\ error' = IF contexts[i].has_reaction_to
                             THEN "DuplicateContextException" ELSE "KeyError"
                 /\ contexts' = contexts]_vars

\* a call without autofix has raised on a duplicate met after two kept
\* records, and the list is the one that was read
C18_Witness ==
    /\ pc = "check_failed"
    /\ ~autofix
    /\ error = "DuplicateContextException"
    /\ Len(contexts) = 3
    /\ contexts = source_records
    /\ contexts[3].reaction_to = contexts[1].reaction_to
    /\ contexts[2].reaction_to # contexts[1].reaction_to

\* positions of the records that carry this reaction_to, in source order
WithReaction(ctxs, r) ==
    SortedKeys({i \in 1..Len(ctxs) : ctxs[i].has_reaction_to /\ ctxs[i].reaction_to = r})

\* the first record of each distinct reaction_to, in order of first
\* appearance, its triggers being those of all records that share the
\* reaction_to, in source order
MergedContexts(ctxs) ==
    LET firsts == SortedKeys({i \in 1..Len(ctxs) :
                                 ctxs[i].has_reaction_to /\ ~Offending(ctxs, i)})
    IN [k \in 1..Len(firsts) |->
           LET same == WithReaction(ctxs, ctxs[firsts[k]].reaction_to)
           IN [ctxs[firsts[k]] EXCEPT
                  !.triggers = Concat([n \in 1..Len(same) |-> ctxs[same[n]].triggers])]]

\* C19: with autofix _check_contexts never raises for records lacking
\* reaction_to or repeating one: the former are skipped, and the resulting
\* list holds each distinct reaction_to once, in order of first
\* appearance, with the concatenated triggers of the records sharing it.
C19_AutofixMerges ==
    [][(CheckCalled /\ autofix') =>
          /\ error' = "none"
          /\ contexts' = MergedContexts(contexts)]_vars

----------------------------------------------------------------------------
(* Claims about failures of the intensity stages (SpecIntensity) *)

\* C29: for every intensity list init_intensity has built and every
\* non-empty highlight list of the detector, set_highlight_intensities
\* completes without error and leaves every highlight with an intensity.
C29_EveryHighlightClassified ==
    [][(pc = "set_highlight_intensities" /\ highlights # <<>>) =>
          /\ error' = "none"
          /\ \A i \in 1..Len(highlights') : highlights'[i].intensity # NoIntensity]_vars

\* C22: a stage that raises leaves the highlight list as the previous
\* stage produced it: no highlight has been enriched by the failed stage.
C22_FailedStageLeavesHighlights ==
    [][(error = "none" /\ error' # "none") => highlights' = highlights]_vars

----------------------------------------------------------------------------
(* Claims about the attribution loop (SpecAttr) *)

\* a is b with some elements left out, the others in the same order
RECURSIVE IsSubsequence(_, _)
IsSubsequence(a, b) ==
    IF a = <<>> THEN TRUE
    ELSE IF b = <<>> THEN FALSE
    ELSE IF Head(a) = Head(b) THEN IsSubsequence(Tail(a), Tail(b))
    ELSE IsSubsequence(a, Tail(b))

\* the highlight pointer once the loop has gone over the first k messages
PointerAfter(k) ==
    AttributeRun(SubSeq(messages, 1, k),
                 [i |-> 0, hl_idx |-> 0, list |-> highlights, done |-> FALSE]).hl_idx

EndOf(h) == h.time + h.duration

\* C24: every message get_highlight_messages appends to a highlight has its
\* time strictly between start and start + duration; the appended messages
\* keep their original order and none is appended to two highlights (the
\* messages of the highlights, one list after the other, are the original
\* sequence with messages left out); the pointer moves by one, and only at
\* a message whose time is at least start + duration of the current
\* highlight; the pointer never exceeds the length of the highlight list.
C24_AttributionSound ==
    [][(pc = "get_highlight_messages" /\ highlights # <<>>) =>
          /\ \A i \in 1..Len(highlights') : \A k \in 1..Len(highlights'[i].messages) :
                /\ highlights'[i].time < highlights'[i].messages[k].time
                /\ highlights'[i].messages[k].time < EndOf(highlights'[i])
          /\ IsSubsequence(Concat([i \in 1..Len(highlights') |-> highlights'[i].messages]),
                           messages)
          /\ \A k \in 1..Len(messages) :
                /\ PointerAfter(k) <= Len(highlights)
                /\ PointerAfter(k) # PointerAfter(k - 1) =>
                      /\ PointerAfter(k) = PointerAfter(k - 1) + 1
                      /\ messages[k].time >= EndOf(highlights[PointerAfter(k - 1) + 1])]_vars

\* two highlights have each received a message, a third message was left
\* out, and the pointer has moved once
C24_Witness ==
    /\ AttributionDone
    /\ Len(highlights) = 2
    /\ highlights[1].messages # <<>>
    /\ highlights[2].messages # <<>>
    /\ Len(messages) > Len(highlights[1].messages) + Len(highlights[2].messages)
    /\ PointerAfter(Len(messages)) = 1

----------------------------------------------------------------------------
(* Claims about the size-1 candidates of the keyphrase finder *)

\* the size-1 candidates of a highlight: the most common tokens with their
\* counts, as the finder lists them
MonogramCandidates(h) ==
    MostCommon(Grams(TokenizeChat(h.messages), 1), DefaultKeyphrasePerNgram)

\* the adaptive maximum of a call with both amounts equal to keyword_limit
AdaptiveMax(h) ==
    Max(keyword_limit,
        keyword_limit - Cardinality({i \in 1..Len(DefaultStoppers) :
                                        Len(h.messages) < DefaultStoppers[i]}))

\* C25: the list ngram_keyphrase_analysis returns never holds more than
\* the adaptive maximum, and when it holds fewer, every size-1 candidate
\* among the most common that qualifies (a text that is not empty, occurs
\* more than once, holds no phrase-end delimiter, is no monogram stop word
\* and is not covered by another accepted phrase) has been accepted.
C25_MinimumSizeFillsUp ==
    KeyphrasesDone =>
        \A i \in 1..Len(highlights) :
            LET h == highlights[i]
                r == AnalysisOf(h)
                cands == MonogramCandidates(h)
                text(c) == FixToken(JoinSpace(cands[c][1]))
                accepted(t) == \E k \in 1..Len(r) : r[k].phrase = t
                covered(t) == \E k \in 1..Len(r) :
                                 r[k].phrase # t /\ IsSubstring(t, r[k].phrase)
            IN /\ Len(r) <= AdaptiveMax(h)
               /\ Len(r) < AdaptiveMax(h) =>
                     \A c \in 1..Len(cands) :
                         (/\ text(c) # <<>>
                          /\ cands[c][2] > 1
                          /\ ~IsSubstring(PHRASE_END_DELIMITER, text(c))
                          /\ text(c) \notin monogram_stop_words
                          /\ ~covered(text(c)))
                         => accepted(text(c))

\* C26: a size-1 candidate is discarded exactly when its text is a line of
\* the monogram stop-word file: no line of that file is returned as a
\* size-1 keyphrase.
C26_StopWordsNeverReturned ==
    KeyphrasesDone =>
        \A i \in 1..Len(highlights) :
            LET r == AnalysisOf(highlights[i])
            IN \A k \in 1..Len(r) :
                  r[k].size = 1 => r[k].phrase \notin MonogramStopWordsFile

----------------------------------------------------------------------------
(* Claims about the source manager (SpecSource) *)

NoDuplicatePath == \A i, j \in 1..Len(paths) : i # j => paths[i] # paths[j]

NoEmptyPath == \A i \in 1..Len(paths) : paths[i] # ""

\* C27: after any sequence of add, remove, update and reset from an empty
\* manager the paths list holds no duplicate and no empty path; add of a
\* path already present raises PathAlreadyExistsException, add of None or
\* "" raises ValueError, remove with both or neither of byPath and byIndex
\* raises ValueError, and each of these failed calls leaves paths as it
\* was.
C27_PathsWellFormed ==
    /\ [](NoDuplicatePath /\ NoEmptyPath)
    /\ [][/\ (call'.op = "add" /\ call'.full_path \in {Absent, Given("")})
                => (error' = "ValueError" /\ paths' = paths)
          /\ (call'.op = "add" /\ call'.full_path \notin {Absent, Given("")}
                /\ Contains(paths, call'.full_path[1]))
                => (error' = "PathAlreadyExistsException" /\ paths' = paths)
          /\ (call'.op = "remove"
                /\ (call'.byPath = Absent <=> call'.byIndex = Absent))
                => (error' = "ValueError" /\ paths' = paths)]_vars

\* three paths are held, the latest call was an add that failed on a path
\* already present
C27_Witness ==
    /\ Len(paths) = 3
    /\ call.op = "add"
    /\ error = "PathAlreadyExistsException"

\* C30: update(old_path, new_path) is all-or-nothing: when it succeeds
\* paths holds new_path and no longer old_path, when it raises paths is
\* what it was before the call.
C30_UpdateAllOrNothing ==
    [][call'.op = "update" =>
          IF error' = "none"
          THEN /\ ~Contains(paths', call'.old_path[1])
               /\ Contains(paths', call'.new_path[1])
          ELSE paths' = paths]_vars

----------------------------------------------------------------------------
(* Claims about configuration errors (SpecAnalyse) *)

ResultFieldsEmpty ==
    /\ frequency = <<>>
    /\ fre_mov_avg = <<>>
    /\ exp_mov_avg = <<>>
    /\ highlight_annotation = <<>>
    /\ highlights = <<>>

\* C21: a window that is not above one, level, constant and color lists of
\* mismatched length, constants that are not ascending or not unique, and
\* an empty message sequence are refused before any stage has run: when
\* the constructor, get_frequency or init_intensity raises, the frequency
\* table, the moving average, the smoothed series, the annotation and the
\* highlight list are still empty.
C21_ConfigurationFailsFast ==
    [][(pc \in {"construct", "get_frequency", "init_intensity"} /\ error' # "none")
          => ResultFieldsEmpty']_vars

----------------------------------------------------------------------------
(* Claims about the order of the highlight list (SpecOrder) *)

\* each highlight starts after the previous one has ended
StrictlyOrdered(list) ==
    \A i \in 1..(Len(list) - 1) : list[i + 1].time > list[i].time + list[i].duration

Spans(list) == [i \in 1..Len(list) |-> <<list[i].time, list[i].duration>>]

\* C28: after detect_highlight_times and after each later stage the
\* highlight list is strictly ordered by start time and its highlights do
\* not overlap (the next one starts after start + duration of the previous
\* one); the later stages only remove highlights, they neither add nor
\* reorder them.
C28_HighlightsStayOrdered ==
    [][/\ pc = "detect_highlight_times" => StrictlyOrdered(highlights')
       /\ pc \in {"correct_highlights", "init_intensity", "set_highlight_intensities",
                 "get_highlight_messages", "get_highlight_keyphrases"}
             => /\ StrictlyOrdered(highlights')
                /\ IsSubsequence(Spans(highlights'), Spans(highlights))]_vars

\* three highlights were detected in a stream of two-sentence messages,
\* two were left by the correction and the keyphrase stage has removed one
\* more and has found keyphrases in the last one
C28_Witness ==
    /\ KeyphrasesDone
    /\ Len(ComputeHighlights(highlight_annotation, exp_mov_avg, min_duration)) = 3
    /\ Len(highlights) = 1
    /\ highlights[1].keywords # <<>>
    /\ messages # <<>>
    /\ messages[1].text = <<"N", "i", "c", "e", ".", " ", "g", "g">>

----------------------------------------------------------------------------
(* Claims about two analysers running side by side (SpecTwo) *)

\* the second analyser as it was constructed
OtherConstructed ==
    NewAnalyser(other.messages, other.window, other.min_duration,
                other.threshold_constant, other.keyword_limit, other.paths[1])

\* the analysers an analysis can end with when it runs alone, from the
\* construction of the analyser a, in a process no other analyser has run
\* in and with the context files of this one
AloneFromStart(a, method) ==
    RunAloneOutcomes([a |-> a, p |-> ProcessAtStart(process.files), method |-> method])

\* C23: two analysers, each on its own message stream, run their stages
\* interleaved in any order in one process; when the analysis of either is
\* over, its highlight list and its error are exactly those of an analysis
\* it runs alone from its construction, whatever the stages of the other
\* have read and written in the process in between.
C23_NoInterference ==
    /\ AnalysisOver(pc) =>
          \E r \in AloneFromStart(FirstAnalyser, plan.first) :
              highlights = r.highlights /\ error = r.error
    /\ AnalysisOver(other.pc) =>
          \E r \in AloneFromStart(OtherConstructed, plan.other) :
              other.highlights = r.highlights /\ other.error = r.error

\* both analyses are over, one with get_highlight_keyphrases and one with
\* get_highlight_keywords, which has read the filter list both hold; the
\* two have read different context files and have produced highlights with
\* different guessed contexts
C23_Witness ==
    /\ pc = "done"
    /\ other.pc = "done"
    /\ plan.first = "keyphrases"
    /\ plan.other = "keywords"
    /\ process.nltk_data_path = <<NLTK_DATA_PATH>>
    /\ other.paths # paths
    /\ highlights # <<>>
    /\ other.highlights # <<>>
    /\ highlights[1].messages # <<>>
    /\ highlights[1].keywords # <<>>
    /\ other.highlights[1].keywords # <<>>
    /\ highlights[1].contexts # other.highlights[1].contexts

====
